---- MODULE Spec2Model ----
(***************************************************************************)
(* QuizCraft: the question generator, the verifier / repair loop and the   *)
(* orchestrator's question phase (quizcraft/pipeline.py), with the text    *)
(* helpers they rest on (quizcraft/utils.py, quizcraft/schemas.py,         *)
(* quizcraft/retrieval.py).                                                *)
(*                                                                         *)
(* A text is a sequence of Unicode code points (Python str): 97 is "a",    *)
(* 10 is the line feed, 21966 is U+55CE.  The empty sequence is "" and     *)
(* also stands for a key that is absent or None wherever the code reads    *)
(* the key through `x.get(k) or ...` or tests it for truth.                *)
(***************************************************************************)
EXTENDS Integers, Sequences, FiniteSets, TLC

(***************************************************************************)
(* Character classes (Python str methods and the re module on str).        *)
(***************************************************************************)

\* str.isspace / \s of re: the whitespace code points.
IsSpace(c) ==
    \/ c \in 9..13
    \/ c \in 28..32
    \/ c \in {133, 160, 5760, 8232, 8233, 8239, 8287, 12288}
    \/ c \in 8192..8202

IsAsciiUpper(c) == c \in 65..90
IsAsciiLower(c) == c \in 97..122
IsAsciiDigit(c) == c \in 48..57
IsCJK(c) == c \in 19968..40959

(***************************************************************************)
(* The character database of Python 3.11 (Unicode 14.0) as tables.  A row  *)
(* <<first, last, step>> of a table stands for the code points first,      *)
(* first + step, ..., last; a row <<first, last, step, delta>> of a map    *)
(* sends each of them to itself plus delta.                                *)
(***************************************************************************)

\* the decimal digits: what \d of re matches on str
DigitTable ==
    << <<48, 57, 1>>, <<1632, 1641, 1>>, <<1776, 1785, 1>>,
       <<1984, 1993, 1>>, <<2406, 2415, 1>>, <<2534, 2543, 1>>,
       <<2662, 2671, 1>>, <<2790, 2799, 1>>, <<2918, 2927, 1>>,
       <<3046, 3055, 1>>, <<3174, 3183, 1>>, <<3302, 3311, 1>>,
       <<3430, 3439, 1>>, <<3558, 3567, 1>>, <<3664, 3673, 1>>,
       <<3792, 3801, 1>>, <<3872, 3881, 1>>, <<4160, 4169, 1>>,
       <<4240, 4249, 1>>, <<6112, 6121, 1>>, <<6160, 6169, 1>>,
       <<6470, 6479, 1>>, <<6608, 6617, 1>>, <<6784, 6793, 1>>,
       <<6800, 6809, 1>>, <<6992, 7001, 1>>, <<7088, 7097, 1>>,
       <<7232, 7241, 1>>, <<7248, 7257, 1>>, <<42528, 42537, 1>>,
       <<43216, 43225, 1>>, <<43264, 43273, 1>>, <<43472, 43481, 1>>,
       <<43504, 43513, 1>>, <<43600, 43609, 1>>, <<44016, 44025, 1>>,
       <<65296, 65305, 1>>, <<66720, 66729, 1>>, <<68912, 68921, 1>>,
       <<69734, 69743, 1>>, <<69872, 69881, 1>>, <<69942, 69951, 1>>,
       <<70096, 70105, 1>>, <<70384, 70393, 1>>, <<70736, 70745, 1>>,
       <<70864, 70873, 1>>, <<71248, 71257, 1>>, <<71360, 71369, 1>>,
       <<71472, 71481, 1>>, <<71904, 71913, 1>>, <<72016, 72025, 1>>,
       <<72784, 72793, 1>>, <<73040, 73049, 1>>, <<73120, 73129, 1>>,
       <<92768, 92777, 1>>, <<92864, 92873, 1>>, <<93008, 93017, 1>>,
       <<120782, 120831, 1>>, <<123200, 123209, 1>>, <<123632, 123641, 1>>,
       <<125264, 125273, 1>>, <<130032, 130041, 1>> >>

\* the alphanumerics and the underscore: what \w of re matches on str
WordTable ==
    << <<48, 57, 1>>, <<65, 90, 1>>, <<95, 95, 1>>, <<97, 122, 1>>,
       <<170, 170, 1>>, <<178, 179, 1>>, <<181, 181, 1>>, <<185, 186, 1>>,
       <<188, 190, 1>>, <<192, 214, 1>>, <<216, 246, 1>>, <<248, 705, 1>>,
       <<710, 721, 1>>, <<736, 740, 1>>, <<748, 750, 2>>, <<880, 884, 1>>,
       <<886, 887, 1>>, <<890, 893, 1>>, <<895, 895, 1>>, <<902, 902, 1>>,
       <<904, 906, 1>>, <<908, 908, 1>>, <<910, 929, 1>>, <<931, 1013, 1>>,
       <<1015, 1153, 1>>, <<1162, 1327, 1>>, <<1329, 1366, 1>>,
       <<1369, 1369, 1>>, <<1376, 1416, 1>>, <<1488, 1514, 1>>,
       <<1519, 1522, 1>>, <<1568, 1610, 1>>, <<1632, 1641, 1>>,
       <<1646, 1647, 1>>, <<1649, 1747, 1>>, <<1749, 1749, 1>>,
       <<1765, 1766, 1>>, <<1774, 1788, 1>>, <<1791, 1791, 1>>,
       <<1808, 1808, 1>>, <<1810, 1839, 1>>, <<1869, 1957, 1>>,
       <<1969, 1969, 1>>, <<1984, 2026, 1>>, <<2036, 2037, 1>>,
       <<2042, 2042, 1>>, <<2048, 2069, 1>>, <<2074, 2074, 1>>,
       <<2084, 2084, 1>>, <<2088, 2088, 1>>, <<2112, 2136, 1>>,
       <<2144, 2154, 1>>, <<2160, 2183, 1>>, <<2185, 2190, 1>>,
       <<2208, 2249, 1>>, <<2308, 2361, 1>>, <<2365, 2365, 1>>,
       <<2384, 2384, 1>>, <<2392, 2401, 1>>, <<2406, 2415, 1>>,
       <<2417, 2432, 1>>, <<2437, 2444, 1>>, <<2447, 2448, 1>>,
       <<2451, 2472, 1>>, <<2474, 2480, 1>>, <<2482, 2482, 1>>,
       <<2486, 2489, 1>>, <<2493, 2493, 1>>, <<2510, 2510, 1>>,
       <<2524, 2525, 1>>, <<2527, 2529, 1>>, <<2534, 2545, 1>>,
       <<2548, 2553, 1>>, <<2556, 2556, 1>>, <<2565, 2570, 1>>,
       <<2575, 2576, 1>>, <<2579, 2600, 1>>, <<2602, 2608, 1>>,
       <<2610, 2611, 1>>, <<2613, 2614, 1>>, <<2616, 2617, 1>>,
       <<2649, 2652, 1>>, <<2654, 2654, 1>>, <<2662, 2671, 1>>,
       <<2674, 2676, 1>>, <<2693, 2701, 1>>, <<2703, 2705, 1>>,
       <<2707, 2728, 1>>, <<2730, 2736, 1>>, <<2738, 2739, 1>>,
       <<2741, 2745, 1>>, <<2749, 2749, 1>>, <<2768, 2768, 1>>,
       <<2784, 2785, 1>>, <<2790, 2799, 1>>, <<2809, 2809, 1>>,
       <<2821, 2828, 1>>, <<2831, 2832, 1>>, <<2835, 2856, 1>>,
       <<2858, 2864, 1>>, <<2866, 2867, 1>>, <<2869, 2873, 1>>,
       <<2877, 2877, 1>>, <<2908, 2909, 1>>, <<2911, 2913, 1>>,
       <<2918, 2927, 1>>, <<2929, 2935, 1>>, <<2947, 2947, 1>>,
       <<2949, 2954, 1>>, <<2958, 2960, 1>>, <<2962, 2965, 1>>,
       <<2969, 2970, 1>>, <<2972, 2972, 1>>, <<2974, 2975, 1>>,
       <<2979, 2980, 1>>, <<2984, 2986, 1>>, <<2990, 3001, 1>>,
       <<3024, 3024, 1>>, <<3046, 3058, 1>>, <<3077, 3084, 1>>,
       <<3086, 3088, 1>>, <<3090, 3112, 1>>, <<3114, 3129, 1>>,
       <<3133, 3133, 1>>, <<3160, 3162, 1>>, <<3165, 3165, 1>>,
       <<3168, 3169, 1>>, <<3174, 3183, 1>>, <<3192, 3198, 1>>,
       <<3200, 3200, 1>>, <<3205, 3212, 1>>, <<3214, 3216, 1>>,
       <<3218, 3240, 1>>, <<3242, 3251, 1>>, <<3253, 3257, 1>>,
       <<3261, 3261, 1>>, <<3293, 3294, 1>>, <<3296, 3297, 1>>,
       <<3302, 3311, 1>>, <<3313, 3314, 1>>, <<3332, 3340, 1>>,
       <<3342, 3344, 1>>, <<3346, 3386, 1>>, <<3389, 3389, 1>>,
       <<3406, 3406, 1>>, <<3412, 3414, 1>>, <<3416, 3425, 1>>,
       <<3430, 3448, 1>>, <<3450, 3455, 1>>, <<3461, 3478, 1>>,
       <<3482, 3505, 1>>, <<3507, 3515, 1>>, <<3517, 3517, 1>>,
       <<3520, 3526, 1>>, <<3558, 3567, 1>>, <<3585, 3632, 1>>,
       <<3634, 3635, 1>>, <<3648, 3654, 1>>, <<3664, 3673, 1>>,
       <<3713, 3714, 1>>, <<3716, 3716, 1>>, <<3718, 3722, 1>>,
       <<3724, 3747, 1>>, <<3749, 3749, 1>>, <<3751, 3760, 1>>,
       <<3762, 3763, 1>>, <<3773, 3773, 1>>, <<3776, 3780, 1>>,
       <<3782, 3782, 1>>, <<3792, 3801, 1>>, <<3804, 3807, 1>>,
       <<3840, 3840, 1>>, <<3872, 3891, 1>>, <<3904, 3911, 1>>,
       <<3913, 3948, 1>>, <<3976, 3980, 1>>, <<4096, 4138, 1>>,
       <<4159, 4169, 1>>, <<4176, 4181, 1>>, <<4186, 4189, 1>>,
       <<4193, 4193, 1>>, <<4197, 4198, 1>>, <<4206, 4208, 1>>,
       <<4213, 4225, 1>>, <<4238, 4238, 1>>, <<4240, 4249, 1>>,
       <<4256, 4293, 1>>, <<4295, 4295, 1>>, <<4301, 4301, 1>>,
       <<4304, 4346, 1>>, <<4348, 4680, 1>>, <<4682, 4685, 1>>,
       <<4688, 4694, 1>>, <<4696, 4696, 1>>, <<4698, 4701, 1>>,
       <<4704, 4744, 1>>, <<4746, 4749, 1>>, <<4752, 4784, 1>>,
       <<4786, 4789, 1>>, <<4792, 4798, 1>>, <<4800, 4800, 1>>,
       <<4802, 4805, 1>>, <<4808, 4822, 1>>, <<4824, 4880, 1>>,
       <<4882, 4885, 1>>, <<4888, 4954, 1>>, <<4969, 4988, 1>>,
       <<4992, 5007, 1>>, <<5024, 5109, 1>>, <<5112, 5117, 1>>,
       <<5121, 5740, 1>>, <<5743, 5759, 1>>, <<5761, 5786, 1>>,
       <<5792, 5866, 1>>, <<5870, 5880, 1>>, <<5888, 5905, 1>>,
       <<5919, 5937, 1>>, <<5952, 5969, 1>>, <<5984, 5996, 1>>,
       <<5998, 6000, 1>>, <<6016, 6067, 1>>, <<6103, 6103, 1>>,
       <<6108, 6108, 1>>, <<6112, 6121, 1>>, <<6128, 6137, 1>>,
       <<6160, 6169, 1>>, <<6176, 6264, 1>>, <<6272, 6276, 1>>,
       <<6279, 6312, 1>>, <<6314, 6314, 1>>, <<6320, 6389, 1>>,
       <<6400, 6430, 1>>, <<6470, 6509, 1>>, <<6512, 6516, 1>>,
       <<6528, 6571, 1>>, <<6576, 6601, 1>>, <<6608, 6618, 1>>,
       <<6656, 6678, 1>>, <<6688, 6740, 1>>, <<6784, 6793, 1>>,
       <<6800, 6809, 1>>, <<6823, 6823, 1>>, <<6917, 6963, 1>>,
       <<6981, 6988, 1>>, <<6992, 7001, 1>>, <<7043, 7072, 1>>,
       <<7086, 7141, 1>>, <<7168, 7203, 1>>, <<7232, 7241, 1>>,
       <<7245, 7293, 1>>, <<7296, 7304, 1>>, <<7312, 7354, 1>>,
       <<7357, 7359, 1>>, <<7401, 7404, 1>>, <<7406, 7411, 1>>,
       <<7413, 7414, 1>>, <<7418, 7418, 1>>, <<7424, 7615, 1>>,
       <<7680, 7957, 1>>, <<7960, 7965, 1>>, <<7968, 8005, 1>>,
       <<8008, 8013, 1>>, <<8016, 8023, 1>>, <<8025, 8029, 2>>,
       <<8031, 8061, 1>>, <<8064, 8116, 1>>, <<8118, 8124, 1>>,
       <<8126, 8126, 1>>, <<8130, 8132, 1>>, <<8134, 8140, 1>>,
       <<8144, 8147, 1>>, <<8150, 8155, 1>>, <<8160, 8172, 1>>,
       <<8178, 8180, 1>>, <<8182, 8188, 1>>, <<8304, 8305, 1>>,
       <<8308, 8313, 1>>, <<8319, 8329, 1>>, <<8336, 8348, 1>>,
       <<8450, 8450, 1>>, <<8455, 8455, 1>>, <<8458, 8467, 1>>,
       <<8469, 8469, 1>>, <<8473, 8477, 1>>, <<8484, 8488, 2>>,
       <<8490, 8493, 1>>, <<8495, 8505, 1>>, <<8508, 8511, 1>>,
       <<8517, 8521, 1>>, <<8526, 8526, 1>>, <<8528, 8585, 1>>,
       <<9312, 9371, 1>>, <<9450, 9471, 1>>, <<10102, 10131, 1>>,
       <<11264, 11492, 1>>, <<11499, 11502, 1>>, <<11506, 11507, 1>>,
       <<11517, 11517, 1>>, <<11520, 11557, 1>>, <<11559, 11559, 1>>,
       <<11565, 11565, 1>>, <<11568, 11623, 1>>, <<11631, 11631, 1>>,
       <<11648, 11670, 1>>, <<11680, 11686, 1>>, <<11688, 11694, 1>>,
       <<11696, 11702, 1>>, <<11704, 11710, 1>>, <<11712, 11718, 1>>,
       <<11720, 11726, 1>>, <<11728, 11734, 1>>, <<11736, 11742, 1>>,
       <<11823, 11823, 1>>, <<12293, 12295, 1>>, <<12321, 12329, 1>>,
       <<12337, 12341, 1>>, <<12344, 12348, 1>>, <<12353, 12438, 1>>,
       <<12445, 12447, 1>>, <<12449, 12538, 1>>, <<12540, 12543, 1>>,
       <<12549, 12591, 1>>, <<12593, 12686, 1>>, <<12690, 12693, 1>>,
       <<12704, 12735, 1>>, <<12784, 12799, 1>>, <<12832, 12841, 1>>,
       <<12872, 12879, 1>>, <<12881, 12895, 1>>, <<12928, 12937, 1>>,
       <<12977, 12991, 1>>, <<13312, 19903, 1>>, <<19968, 42124, 1>>,
       <<42192, 42237, 1>>, <<42240, 42508, 1>>, <<42512, 42539, 1>>,
       <<42560, 42606, 1>>, <<42623, 42653, 1>>, <<42656, 42735, 1>>,
       <<42775, 42783, 1>>, <<42786, 42888, 1>>, <<42891, 42954, 1>>,
       <<42960, 42961, 1>>, <<42963, 42963, 1>>, <<42965, 42969, 1>>,
       <<42994, 43009, 1>>, <<43011, 43013, 1>>, <<43015, 43018, 1>>,
       <<43020, 43042, 1>>, <<43056, 43061, 1>>, <<43072, 43123, 1>>,
       <<43138, 43187, 1>>, <<43216, 43225, 1>>, <<43250, 43255, 1>>,
       <<43259, 43259, 1>>, <<43261, 43262, 1>>, <<43264, 43301, 1>>,
       <<43312, 43334, 1>>, <<43360, 43388, 1>>, <<43396, 43442, 1>>,
       <<43471, 43481, 1>>, <<43488, 43492, 1>>, <<43494, 43518, 1>>,
       <<43520, 43560, 1>>, <<43584, 43586, 1>>, <<43588, 43595, 1>>,
       <<43600, 43609, 1>>, <<43616, 43638, 1>>, <<43642, 43642, 1>>,
       <<43646, 43695, 1>>, <<43697, 43697, 1>>, <<43701, 43702, 1>>,
       <<43705, 43709, 1>>, <<43712, 43714, 2>>, <<43739, 43741, 1>>,
       <<43744, 43754, 1>>, <<43762, 43764, 1>>, <<43777, 43782, 1>>,
       <<43785, 43790, 1>>, <<43793, 43798, 1>>, <<43808, 43814, 1>>,
       <<43816, 43822, 1>>, <<43824, 43866, 1>>, <<43868, 43881, 1>>,
       <<43888, 44002, 1>>, <<44016, 44025, 1>>, <<44032, 55203, 1>>,
       <<55216, 55238, 1>>, <<55243, 55291, 1>>, <<63744, 64109, 1>>,
       <<64112, 64217, 1>>, <<64256, 64262, 1>>, <<64275, 64279, 1>>,
       <<64285, 64285, 1>>, <<64287, 64296, 1>>, <<64298, 64310, 1>>,
       <<64312, 64316, 1>>, <<64318, 64318, 1>>, <<64320, 64321, 1>>,
       <<64323, 64324, 1>>, <<64326, 64433, 1>>, <<64467, 64829, 1>>,
       <<64848, 64911, 1>>, <<64914, 64967, 1>>, <<65008, 65019, 1>>,
       <<65136, 65140, 1>>, <<65142, 65276, 1>>, <<65296, 65305, 1>>,
       <<65313, 65338, 1>>, <<65345, 65370, 1>>, <<65382, 65470, 1>>,
       <<65474, 65479, 1>>, <<65482, 65487, 1>>, <<65490, 65495, 1>>,
       <<65498, 65500, 1>>, <<65536, 65547, 1>>, <<65549, 65574, 1>>,
       <<65576, 65594, 1>>, <<65596, 65597, 1>>, <<65599, 65613, 1>>,
       <<65616, 65629, 1>>, <<65664, 65786, 1>>, <<65799, 65843, 1>>,
       <<65856, 65912, 1>>, <<65930, 65931, 1>>, <<66176, 66204, 1>>,
       <<66208, 66256, 1>>, <<66273, 66299, 1>>, <<66304, 66339, 1>>,
       <<66349, 66378, 1>>, <<66384, 66421, 1>>, <<66432, 66461, 1>>,
       <<66464, 66499, 1>>, <<66504, 66511, 1>>, <<66513, 66517, 1>>,
       <<66560, 66717, 1>>, <<66720, 66729, 1>>, <<66736, 66771, 1>>,
       <<66776, 66811, 1>>, <<66816, 66855, 1>>, <<66864, 66915, 1>>,
       <<66928, 66938, 1>>, <<66940, 66954, 1>>, <<66956, 66962, 1>>,
       <<66964, 66965, 1>>, <<66967, 66977, 1>>, <<66979, 66993, 1>>,
       <<66995, 67001, 1>>, <<67003, 67004, 1>>, <<67072, 67382, 1>>,
       <<67392, 67413, 1>>, <<67424, 67431, 1>>, <<67456, 67461, 1>>,
       <<67463, 67504, 1>>, <<67506, 67514, 1>>, <<67584, 67589, 1>>,
       <<67592, 67592, 1>>, <<67594, 67637, 1>>, <<67639, 67640, 1>>,
       <<67644, 67644, 1>>, <<67647, 67669, 1>>, <<67672, 67702, 1>>,
       <<67705, 67742, 1>>, <<67751, 67759, 1>>, <<67808, 67826, 1>>,
       <<67828, 67829, 1>>, <<67835, 67867, 1>>, <<67872, 67897, 1>>,
       <<67968, 68023, 1>>, <<68028, 68047, 1>>, <<68050, 68096, 1>>,
       <<68112, 68115, 1>>, <<68117, 68119, 1>>, <<68121, 68149, 1>>,
       <<68160, 68168, 1>>, <<68192, 68222, 1>>, <<68224, 68255, 1>>,
       <<68288, 68295, 1>>, <<68297, 68324, 1>>, <<68331, 68335, 1>>,
       <<68352, 68405, 1>>, <<68416, 68437, 1>>, <<68440, 68466, 1>>,
       <<68472, 68497, 1>>, <<68521, 68527, 1>>, <<68608, 68680, 1>>,
       <<68736, 68786, 1>>, <<68800, 68850, 1>>, <<68858, 68899, 1>>,
       <<68912, 68921, 1>>, <<69216, 69246, 1>>, <<69248, 69289, 1>>,
       <<69296, 69297, 1>>, <<69376, 69415, 1>>, <<69424, 69445, 1>>,
       <<69457, 69460, 1>>, <<69488, 69505, 1>>, <<69552, 69579, 1>>,
       <<69600, 69622, 1>>, <<69635, 69687, 1>>, <<69714, 69743, 1>>,
       <<69745, 69746, 1>>, <<69749, 69749, 1>>, <<69763, 69807, 1>>,
       <<69840, 69864, 1>>, <<69872, 69881, 1>>, <<69891, 69926, 1>>,
       <<69942, 69951, 1>>, <<69956, 69956, 1>>, <<69959, 69959, 1>>,
       <<69968, 70002, 1>>, <<70006, 70006, 1>>, <<70019, 70066, 1>>,
       <<70081, 70084, 1>>, <<70096, 70106, 1>>, <<70108, 70108, 1>>,
       <<70113, 70132, 1>>, <<70144, 70161, 1>>, <<70163, 70187, 1>>,
       <<70272, 70278, 1>>, <<70280, 70280, 1>>, <<70282, 70285, 1>>,
       <<70287, 70301, 1>>, <<70303, 70312, 1>>, <<70320, 70366, 1>>,
       <<70384, 70393, 1>>, <<70405, 70412, 1>>, <<70415, 70416, 1>>,
       <<70419, 70440, 1>>, <<70442, 70448, 1>>, <<70450, 70451, 1>>,
       <<70453, 70457, 1>>, <<70461, 70461, 1>>, <<70480, 70480, 1>>,
       <<70493, 70497, 1>>, <<70656, 70708, 1>>, <<70727, 70730, 1>>,
       <<70736, 70745, 1>>, <<70751, 70753, 1>>, <<70784, 70831, 1>>,
       <<70852, 70853, 1>>, <<70855, 70855, 1>>, <<70864, 70873, 1>>,
       <<71040, 71086, 1>>, <<71128, 71131, 1>>, <<71168, 71215, 1>>,
       <<71236, 71236, 1>>, <<71248, 71257, 1>>, <<71296, 71338, 1>>,
       <<71352, 71352, 1>>, <<71360, 71369, 1>>, <<71424, 71450, 1>>,
       <<71472, 71483, 1>>, <<71488, 71494, 1>>, <<71680, 71723, 1>>,
       <<71840, 71922, 1>>, <<71935, 71942, 1>>, <<71945, 71945, 1>>,
       <<71948, 71955, 1>>, <<71957, 71958, 1>>, <<71960, 71983, 1>>,
       <<71999, 72001, 2>>, <<72016, 72025, 1>>, <<72096, 72103, 1>>,
       <<72106, 72144, 1>>, <<72161, 72163, 2>>, <<72192, 72192, 1>>,
       <<72203, 72242, 1>>, <<72250, 72250, 1>>, <<72272, 72272, 1>>,
       <<72284, 72329, 1>>, <<72349, 72349, 1>>, <<72368, 72440, 1>>,
       <<72704, 72712, 1>>, <<72714, 72750, 1>>, <<72768, 72768, 1>>,
       <<72784, 72812, 1>>, <<72818, 72847, 1>>, <<72960, 72966, 1>>,
       <<72968, 72969, 1>>, <<72971, 73008, 1>>, <<73030, 73030, 1>>,
       <<73040, 73049, 1>>, <<73056, 73061, 1>>, <<73063, 73064, 1>>,
       <<73066, 73097, 1>>, <<73112, 73112, 1>>, <<73120, 73129, 1>>,
       <<73440, 73458, 1>>, <<73648, 73648, 1>>, <<73664, 73684, 1>>,
       <<73728, 74649, 1>>, <<74752, 74862, 1>>, <<74880, 75075, 1>>,
       <<77712, 77808, 1>>, <<77824, 78894, 1>>, <<82944, 83526, 1>>,
       <<92160, 92728, 1>>, <<92736, 92766, 1>>, <<92768, 92777, 1>>,
       <<92784, 92862, 1>>, <<92864, 92873, 1>>, <<92880, 92909, 1>>,
       <<92928, 92975, 1>>, <<92992, 92995, 1>>, <<93008, 93017, 1>>,
       <<93019, 93025, 1>>, <<93027, 93047, 1>>, <<93053, 93071, 1>>,
       <<93760, 93846, 1>>, <<93952, 94026, 1>>, <<94032, 94032, 1>>,
       <<94099, 94111, 1>>, <<94176, 94177, 1>>, <<94179, 94179, 1>>,
       <<94208, 100343, 1>>, <<100352, 101589, 1>>, <<101632, 101640, 1>>,
       <<110576, 110579, 1>>, <<110581, 110587, 1>>, <<110589, 110590, 1>>,
       <<110592, 110882, 1>>, <<110928, 110930, 1>>, <<110948, 110951, 1>>,
       <<110960, 111355, 1>>, <<113664, 113770, 1>>, <<113776, 113788, 1>>,
       <<113792, 113800, 1>>, <<113808, 113817, 1>>, <<119520, 119539, 1>>,
       <<119648, 119672, 1>>, <<119808, 119892, 1>>, <<119894, 119964, 1>>,
       <<119966, 119967, 1>>, <<119970, 119970, 1>>, <<119973, 119974, 1>>,
       <<119977, 119980, 1>>, <<119982, 119993, 1>>, <<119995, 119995, 1>>,
       <<119997, 120003, 1>>, <<120005, 120069, 1>>, <<120071, 120074, 1>>,
       <<120077, 120084, 1>>, <<120086, 120092, 1>>, <<120094, 120121, 1>>,
       <<120123, 120126, 1>>, <<120128, 120132, 1>>, <<120134, 120134, 1>>,
       <<120138, 120144, 1>>, <<120146, 120485, 1>>, <<120488, 120512, 1>>,
       <<120514, 120538, 1>>, <<120540, 120570, 1>>, <<120572, 120596, 1>>,
       <<120598, 120628, 1>>, <<120630, 120654, 1>>, <<120656, 120686, 1>>,
       <<120688, 120712, 1>>, <<120714, 120744, 1>>, <<120746, 120770, 1>>,
       <<120772, 120779, 1>>, <<120782, 120831, 1>>, <<122624, 122654, 1>>,
       <<123136, 123180, 1>>, <<123191, 123197, 1>>, <<123200, 123209, 1>>,
       <<123214, 123214, 1>>, <<123536, 123565, 1>>, <<123584, 123627, 1>>,
       <<123632, 123641, 1>>, <<124896, 124902, 1>>, <<124904, 124907, 1>>,
       <<124909, 124910, 1>>, <<124912, 124926, 1>>, <<124928, 125124, 1>>,
       <<125127, 125135, 1>>, <<125184, 125251, 1>>, <<125259, 125259, 1>>,
       <<125264, 125273, 1>>, <<126065, 126123, 1>>, <<126125, 126127, 1>>,
       <<126129, 126132, 1>>, <<126209, 126253, 1>>, <<126255, 126269, 1>>,
       <<126464, 126467, 1>>, <<126469, 126495, 1>>, <<126497, 126498, 1>>,
       <<126500, 126500, 1>>, <<126503, 126503, 1>>, <<126505, 126514, 1>>,
       <<126516, 126519, 1>>, <<126521, 126523, 2>>, <<126530, 126530, 1>>,
       <<126535, 126539, 2>>, <<126541, 126543, 1>>, <<126545, 126546, 1>>,
       <<126548, 126548, 1>>, <<126551, 126559, 2>>, <<126561, 126562, 1>>,
       <<126564, 126564, 1>>, <<126567, 126570, 1>>, <<126572, 126578, 1>>,
       <<126580, 126583, 1>>, <<126585, 126588, 1>>, <<126590, 126590, 1>>,
       <<126592, 126601, 1>>, <<126603, 126619, 1>>, <<126625, 126627, 1>>,
       <<126629, 126633, 1>>, <<126635, 126651, 1>>, <<127232, 127244, 1>>,
       <<130032, 130041, 1>>, <<131072, 173791, 1>>, <<173824, 177976, 1>>,
       <<177984, 178205, 1>>, <<178208, 183969, 1>>, <<183984, 191456, 1>>,
       <<194560, 195101, 1>>, <<196608, 201546, 1>> >>

\* the uppercase code points (str.isupper of one character)
UpperTable ==
    << <<65, 90, 1>>, <<192, 214, 1>>, <<216, 222, 1>>, <<256, 310, 2>>,
       <<313, 327, 2>>, <<330, 374, 2>>, <<376, 377, 1>>, <<379, 381, 2>>,
       <<385, 386, 1>>, <<388, 388, 1>>, <<390, 391, 1>>, <<393, 395, 1>>,
       <<398, 401, 1>>, <<403, 404, 1>>, <<406, 408, 1>>, <<412, 413, 1>>,
       <<415, 416, 1>>, <<418, 420, 2>>, <<422, 423, 1>>, <<425, 425, 1>>,
       <<428, 428, 1>>, <<430, 431, 1>>, <<433, 435, 1>>, <<437, 437, 1>>,
       <<439, 440, 1>>, <<444, 444, 1>>, <<452, 452, 1>>, <<455, 455, 1>>,
       <<458, 458, 1>>, <<461, 475, 2>>, <<478, 494, 2>>, <<497, 497, 1>>,
       <<500, 500, 1>>, <<502, 504, 1>>, <<506, 562, 2>>, <<570, 571, 1>>,
       <<573, 574, 1>>, <<577, 577, 1>>, <<579, 582, 1>>, <<584, 590, 2>>,
       <<880, 882, 2>>, <<886, 886, 1>>, <<895, 895, 1>>, <<902, 902, 1>>,
       <<904, 906, 1>>, <<908, 908, 1>>, <<910, 911, 1>>, <<913, 929, 1>>,
       <<931, 939, 1>>, <<975, 975, 1>>, <<978, 980, 1>>, <<984, 1006, 2>>,
       <<1012, 1012, 1>>, <<1015, 1015, 1>>, <<1017, 1018, 1>>,
       <<1021, 1071, 1>>, <<1120, 1152, 2>>, <<1162, 1214, 2>>,
       <<1216, 1217, 1>>, <<1219, 1229, 2>>, <<1232, 1326, 2>>,
       <<1329, 1366, 1>>, <<4256, 4293, 1>>, <<4295, 4295, 1>>,
       <<4301, 4301, 1>>, <<5024, 5109, 1>>, <<7312, 7354, 1>>,
       <<7357, 7359, 1>>, <<7680, 7828, 2>>, <<7838, 7934, 2>>,
       <<7944, 7951, 1>>, <<7960, 7965, 1>>, <<7976, 7983, 1>>,
       <<7992, 7999, 1>>, <<8008, 8013, 1>>, <<8025, 8031, 2>>,
       <<8040, 8047, 1>>, <<8120, 8123, 1>>, <<8136, 8139, 1>>,
       <<8152, 8155, 1>>, <<8168, 8172, 1>>, <<8184, 8187, 1>>,
       <<8450, 8450, 1>>, <<8455, 8455, 1>>, <<8459, 8461, 1>>,
       <<8464, 8466, 1>>, <<8469, 8469, 1>>, <<8473, 8477, 1>>,
       <<8484, 8488, 2>>, <<8490, 8493, 1>>, <<8496, 8499, 1>>,
       <<8510, 8511, 1>>, <<8517, 8517, 1>>, <<8544, 8559, 1>>,
       <<8579, 8579, 1>>, <<9398, 9423, 1>>, <<11264, 11311, 1>>,
       <<11360, 11360, 1>>, <<11362, 11364, 1>>, <<11367, 11371, 2>>,
       <<11373, 11376, 1>>, <<11378, 11378, 1>>, <<11381, 11381, 1>>,
       <<11390, 11392, 1>>, <<11394, 11490, 2>>, <<11499, 11501, 2>>,
       <<11506, 11506, 1>>, <<42560, 42604, 2>>, <<42624, 42650, 2>>,
       <<42786, 42798, 2>>, <<42802, 42862, 2>>, <<42873, 42875, 2>>,
       <<42877, 42878, 1>>, <<42880, 42886, 2>>, <<42891, 42893, 2>>,
       <<42896, 42898, 2>>, <<42902, 42920, 2>>, <<42922, 42926, 1>>,
       <<42928, 42932, 1>>, <<42934, 42946, 2>>, <<42948, 42951, 1>>,
       <<42953, 42953, 1>>, <<42960, 42960, 1>>, <<42966, 42968, 2>>,
       <<42997, 42997, 1>>, <<65313, 65338, 1>>, <<66560, 66599, 1>>,
       <<66736, 66771, 1>>, <<66928, 66938, 1>>, <<66940, 66954, 1>>,
       <<66956, 66962, 1>>, <<66964, 66965, 1>>, <<68736, 68786, 1>>,
       <<71840, 71871, 1>>, <<93760, 93791, 1>>, <<119808, 119833, 1>>,
       <<119860, 119885, 1>>, <<119912, 119937, 1>>, <<119964, 119964, 1>>,
       <<119966, 119967, 1>>, <<119970, 119970, 1>>, <<119973, 119974, 1>>,
       <<119977, 119980, 1>>, <<119982, 119989, 1>>, <<120016, 120041, 1>>,
       <<120068, 120069, 1>>, <<120071, 120074, 1>>, <<120077, 120084, 1>>,
       <<120086, 120092, 1>>, <<120120, 120121, 1>>, <<120123, 120126, 1>>,
       <<120128, 120132, 1>>, <<120134, 120134, 1>>, <<120138, 120144, 1>>,
       <<120172, 120197, 1>>, <<120224, 120249, 1>>, <<120276, 120301, 1>>,
       <<120328, 120353, 1>>, <<120380, 120405, 1>>, <<120432, 120457, 1>>,
       <<120488, 120512, 1>>, <<120546, 120570, 1>>, <<120604, 120628, 1>>,
       <<120662, 120686, 1>>, <<120720, 120744, 1>>, <<120778, 120778, 1>>,
       <<125184, 125217, 1>>, <<127280, 127305, 1>>, <<127312, 127337, 1>>,
       <<127344, 127369, 1>> >>

\* the lowercase code points (str.islower of one character)
LowerTable ==
    << <<97, 122, 1>>, <<170, 170, 1>>, <<181, 181, 1>>, <<186, 186, 1>>,
       <<223, 246, 1>>, <<248, 255, 1>>, <<257, 309, 2>>, <<311, 312, 1>>,
       <<314, 326, 2>>, <<328, 329, 1>>, <<331, 375, 2>>, <<378, 380, 2>>,
       <<382, 384, 1>>, <<387, 389, 2>>, <<392, 392, 1>>, <<396, 397, 1>>,
       <<402, 402, 1>>, <<405, 405, 1>>, <<409, 411, 1>>, <<414, 414, 1>>,
       <<417, 421, 2>>, <<424, 424, 1>>, <<426, 427, 1>>, <<429, 429, 1>>,
       <<432, 432, 1>>, <<436, 438, 2>>, <<441, 442, 1>>, <<445, 447, 1>>,
       <<454, 454, 1>>, <<457, 457, 1>>, <<460, 474, 2>>, <<476, 477, 1>>,
       <<479, 493, 2>>, <<495, 496, 1>>, <<499, 501, 2>>, <<505, 561, 2>>,
       <<563, 569, 1>>, <<572, 572, 1>>, <<575, 576, 1>>, <<578, 578, 1>>,
       <<583, 589, 2>>, <<591, 659, 1>>, <<661, 696, 1>>, <<704, 705, 1>>,
       <<736, 740, 1>>, <<837, 837, 1>>, <<881, 883, 2>>, <<887, 887, 1>>,
       <<890, 893, 1>>, <<912, 912, 1>>, <<940, 974, 1>>, <<976, 977, 1>>,
       <<981, 983, 1>>, <<985, 1005, 2>>, <<1007, 1011, 1>>,
       <<1013, 1013, 1>>, <<1016, 1016, 1>>, <<1019, 1020, 1>>,
       <<1072, 1119, 1>>, <<1121, 1153, 2>>, <<1163, 1215, 2>>,
       <<1218, 1228, 2>>, <<1230, 1231, 1>>, <<1233, 1327, 2>>,
       <<1376, 1416, 1>>, <<4304, 4346, 1>>, <<4349, 4351, 1>>,
       <<5112, 5117, 1>>, <<7296, 7304, 1>>, <<7424, 7615, 1>>,
       <<7681, 7827, 2>>, <<7829, 7837, 1>>, <<7839, 7933, 2>>,
       <<7935, 7943, 1>>, <<7952, 7957, 1>>, <<7968, 7975, 1>>,
       <<7984, 7991, 1>>, <<8000, 8005, 1>>, <<8016, 8023, 1>>,
       <<8032, 8039, 1>>, <<8048, 8061, 1>>, <<8064, 8071, 1>>,
       <<8080, 8087, 1>>, <<8096, 8103, 1>>, <<8112, 8116, 1>>,
       <<8118, 8119, 1>>, <<8126, 8126, 1>>, <<8130, 8132, 1>>,
       <<8134, 8135, 1>>, <<8144, 8147, 1>>, <<8150, 8151, 1>>,
       <<8160, 8167, 1>>, <<8178, 8180, 1>>, <<8182, 8183, 1>>,
       <<8305, 8305, 1>>, <<8319, 8319, 1>>, <<8336, 8348, 1>>,
       <<8458, 8458, 1>>, <<8462, 8463, 1>>, <<8467, 8467, 1>>,
       <<8495, 8495, 1>>, <<8500, 8500, 1>>, <<8505, 8505, 1>>,
       <<8508, 8509, 1>>, <<8518, 8521, 1>>, <<8526, 8526, 1>>,
       <<8560, 8575, 1>>, <<8580, 8580, 1>>, <<9424, 9449, 1>>,
       <<11312, 11359, 1>>, <<11361, 11361, 1>>, <<11365, 11366, 1>>,
       <<11368, 11372, 2>>, <<11377, 11377, 1>>, <<11379, 11380, 1>>,
       <<11382, 11389, 1>>, <<11393, 11489, 2>>, <<11491, 11492, 1>>,
       <<11500, 11502, 2>>, <<11507, 11507, 1>>, <<11520, 11557, 1>>,
       <<11559, 11559, 1>>, <<11565, 11565, 1>>, <<42561, 42605, 2>>,
       <<42625, 42649, 2>>, <<42651, 42653, 1>>, <<42787, 42797, 2>>,
       <<42799, 42801, 1>>, <<42803, 42861, 2>>, <<42863, 42872, 1>>,
       <<42874, 42876, 2>>, <<42879, 42887, 2>>, <<42892, 42894, 2>>,
       <<42897, 42897, 1>>, <<42899, 42901, 1>>, <<42903, 42921, 2>>,
       <<42927, 42927, 1>>, <<42933, 42947, 2>>, <<42952, 42954, 2>>,
       <<42961, 42969, 2>>, <<42998, 42998, 1>>, <<43000, 43002, 1>>,
       <<43824, 43866, 1>>, <<43868, 43880, 1>>, <<43888, 43967, 1>>,
       <<64256, 64262, 1>>, <<64275, 64279, 1>>, <<65345, 65370, 1>>,
       <<66600, 66639, 1>>, <<66776, 66811, 1>>, <<66967, 66977, 1>>,
       <<66979, 66993, 1>>, <<66995, 67001, 1>>, <<67003, 67004, 1>>,
       <<67456, 67456, 1>>, <<67459, 67461, 1>>, <<67463, 67504, 1>>,
       <<67506, 67514, 1>>, <<68800, 68850, 1>>, <<71872, 71903, 1>>,
       <<93792, 93823, 1>>, <<119834, 119859, 1>>, <<119886, 119892, 1>>,
       <<119894, 119911, 1>>, <<119938, 119963, 1>>, <<119990, 119993, 1>>,
       <<119995, 119995, 1>>, <<119997, 120003, 1>>, <<120005, 120015, 1>>,
       <<120042, 120067, 1>>, <<120094, 120119, 1>>, <<120146, 120171, 1>>,
       <<120198, 120223, 1>>, <<120250, 120275, 1>>, <<120302, 120327, 1>>,
       <<120354, 120379, 1>>, <<120406, 120431, 1>>, <<120458, 120485, 1>>,
       <<120514, 120538, 1>>, <<120540, 120545, 1>>, <<120572, 120596, 1>>,
       <<120598, 120603, 1>>, <<120630, 120654, 1>>, <<120656, 120661, 1>>,
       <<120688, 120712, 1>>, <<120714, 120719, 1>>, <<120746, 120770, 1>>,
       <<120772, 120777, 1>>, <<120779, 120779, 1>>, <<122624, 122633, 1>>,
       <<122635, 122654, 1>>, <<125218, 125251, 1>> >>

\* the titlecase code points
TitleTable ==
    << <<453, 453, 1>>, <<456, 456, 1>>, <<459, 459, 1>>, <<498, 498, 1>>,
       <<8072, 8079, 1>>, <<8088, 8095, 1>>, <<8104, 8111, 1>>,
       <<8124, 8124, 1>>, <<8140, 8140, 1>>, <<8188, 8188, 1>> >>

\* the cased code points that are not case-ignorable
CasedTable ==
    << <<65, 90, 1>>, <<97, 122, 1>>, <<170, 170, 1>>, <<181, 181, 1>>,
       <<186, 186, 1>>, <<192, 214, 1>>, <<216, 246, 1>>, <<248, 442, 1>>,
       <<444, 447, 1>>, <<452, 659, 1>>, <<661, 687, 1>>, <<880, 883, 1>>,
       <<886, 887, 1>>, <<891, 893, 1>>, <<895, 895, 1>>, <<902, 902, 1>>,
       <<904, 906, 1>>, <<908, 908, 1>>, <<910, 929, 1>>, <<931, 1013, 1>>,
       <<1015, 1153, 1>>, <<1162, 1327, 1>>, <<1329, 1366, 1>>,
       <<1376, 1416, 1>>, <<4256, 4293, 1>>, <<4295, 4295, 1>>,
       <<4301, 4301, 1>>, <<4304, 4346, 1>>, <<4349, 4351, 1>>,
       <<5024, 5109, 1>>, <<5112, 5117, 1>>, <<7296, 7304, 1>>,
       <<7312, 7354, 1>>, <<7357, 7359, 1>>, <<7424, 7467, 1>>,
       <<7531, 7543, 1>>, <<7545, 7578, 1>>, <<7680, 7957, 1>>,
       <<7960, 7965, 1>>, <<7968, 8005, 1>>, <<8008, 8013, 1>>,
       <<8016, 8023, 1>>, <<8025, 8029, 2>>, <<8031, 8061, 1>>,
       <<8064, 8116, 1>>, <<8118, 8124, 1>>, <<8126, 8126, 1>>,
       <<8130, 8132, 1>>, <<8134, 8140, 1>>, <<8144, 8147, 1>>,
       <<8150, 8155, 1>>, <<8160, 8172, 1>>, <<8178, 8180, 1>>,
       <<8182, 8188, 1>>, <<8450, 8450, 1>>, <<8455, 8455, 1>>,
       <<8458, 8467, 1>>, <<8469, 8469, 1>>, <<8473, 8477, 1>>,
       <<8484, 8488, 2>>, <<8490, 8493, 1>>, <<8495, 8500, 1>>,
       <<8505, 8505, 1>>, <<8508, 8511, 1>>, <<8517, 8521, 1>>,
       <<8526, 8526, 1>>, <<8544, 8575, 1>>, <<8579, 8580, 1>>,
       <<9398, 9449, 1>>, <<11264, 11387, 1>>, <<11390, 11492, 1>>,
       <<11499, 11502, 1>>, <<11506, 11507, 1>>, <<11520, 11557, 1>>,
       <<11559, 11559, 1>>, <<11565, 11565, 1>>, <<42560, 42605, 1>>,
       <<42624, 42651, 1>>, <<42786, 42863, 1>>, <<42865, 42887, 1>>,
       <<42891, 42894, 1>>, <<42896, 42954, 1>>, <<42960, 42961, 1>>,
       <<42963, 42963, 1>>, <<42965, 42969, 1>>, <<42997, 42998, 1>>,
       <<43002, 43002, 1>>, <<43824, 43866, 1>>, <<43872, 43880, 1>>,
       <<43888, 43967, 1>>, <<64256, 64262, 1>>, <<64275, 64279, 1>>,
       <<65313, 65338, 1>>, <<65345, 65370, 1>>, <<66560, 66639, 1>>,
       <<66736, 66771, 1>>, <<66776, 66811, 1>>, <<66928, 66938, 1>>,
       <<66940, 66954, 1>>, <<66956, 66962, 1>>, <<66964, 66965, 1>>,
       <<66967, 66977, 1>>, <<66979, 66993, 1>>, <<66995, 67001, 1>>,
       <<67003, 67004, 1>>, <<68736, 68786, 1>>, <<68800, 68850, 1>>,
       <<71840, 71903, 1>>, <<93760, 93823, 1>>, <<119808, 119892, 1>>,
       <<119894, 119964, 1>>, <<119966, 119967, 1>>, <<119970, 119970, 1>>,
       <<119973, 119974, 1>>, <<119977, 119980, 1>>, <<119982, 119993, 1>>,
       <<119995, 119995, 1>>, <<119997, 120003, 1>>, <<120005, 120069, 1>>,
       <<120071, 120074, 1>>, <<120077, 120084, 1>>, <<120086, 120092, 1>>,
       <<120094, 120121, 1>>, <<120123, 120126, 1>>, <<120128, 120132, 1>>,
       <<120134, 120134, 1>>, <<120138, 120144, 1>>, <<120146, 120485, 1>>,
       <<120488, 120512, 1>>, <<120514, 120538, 1>>, <<120540, 120570, 1>>,
       <<120572, 120596, 1>>, <<120598, 120628, 1>>, <<120630, 120654, 1>>,
       <<120656, 120686, 1>>, <<120688, 120712, 1>>, <<120714, 120744, 1>>,
       <<120746, 120770, 1>>, <<120772, 120779, 1>>, <<122624, 122633, 1>>,
       <<122635, 122654, 1>>, <<125184, 125251, 1>>, <<127280, 127305, 1>>,
       <<127312, 127337, 1>>, <<127344, 127369, 1>> >>

\* the case-ignorable code points
IgnorableTable ==
    << <<39, 39, 1>>, <<46, 46, 1>>, <<58, 58, 1>>, <<94, 96, 2>>,
       <<168, 168, 1>>, <<173, 175, 2>>, <<180, 180, 1>>, <<183, 184, 1>>,
       <<688, 879, 1>>, <<884, 885, 1>>, <<890, 890, 1>>, <<900, 901, 1>>,
       <<903, 903, 1>>, <<1155, 1161, 1>>, <<1369, 1369, 1>>,
       <<1375, 1375, 1>>, <<1425, 1469, 1>>, <<1471, 1471, 1>>,
       <<1473, 1474, 1>>, <<1476, 1477, 1>>, <<1479, 1479, 1>>,
       <<1524, 1524, 1>>, <<1536, 1541, 1>>, <<1552, 1562, 1>>,
       <<1564, 1564, 1>>, <<1600, 1600, 1>>, <<1611, 1631, 1>>,
       <<1648, 1648, 1>>, <<1750, 1757, 1>>, <<1759, 1768, 1>>,
       <<1770, 1773, 1>>, <<1807, 1809, 2>>, <<1840, 1866, 1>>,
       <<1958, 1968, 1>>, <<2027, 2037, 1>>, <<2042, 2042, 1>>,
       <<2045, 2045, 1>>, <<2070, 2093, 1>>, <<2137, 2139, 1>>,
       <<2184, 2184, 1>>, <<2192, 2193, 1>>, <<2200, 2207, 1>>,
       <<2249, 2306, 1>>, <<2362, 2364, 2>>, <<2369, 2376, 1>>,
       <<2381, 2381, 1>>, <<2385, 2391, 1>>, <<2402, 2403, 1>>,
       <<2417, 2417, 1>>, <<2433, 2433, 1>>, <<2492, 2492, 1>>,
       <<2497, 2500, 1>>, <<2509, 2509, 1>>, <<2530, 2531, 1>>,
       <<2558, 2558, 1>>, <<2561, 2562, 1>>, <<2620, 2620, 1>>,
       <<2625, 2626, 1>>, <<2631, 2632, 1>>, <<2635, 2637, 1>>,
       <<2641, 2641, 1>>, <<2672, 2673, 1>>, <<2677, 2677, 1>>,
       <<2689, 2690, 1>>, <<2748, 2748, 1>>, <<2753, 2757, 1>>,
       <<2759, 2760, 1>>, <<2765, 2765, 1>>, <<2786, 2787, 1>>,
       <<2810, 2815, 1>>, <<2817, 2817, 1>>, <<2876, 2876, 1>>,
       <<2879, 2879, 1>>, <<2881, 2884, 1>>, <<2893, 2893, 1>>,
       <<2901, 2902, 1>>, <<2914, 2915, 1>>, <<2946, 2946, 1>>,
       <<3008, 3008, 1>>, <<3021, 3021, 1>>, <<3072, 3072, 1>>,
       <<3076, 3076, 1>>, <<3132, 3132, 1>>, <<3134, 3136, 1>>,
       <<3142, 3144, 1>>, <<3146, 3149, 1>>, <<3157, 3158, 1>>,
       <<3170, 3171, 1>>, <<3201, 3201, 1>>, <<3260, 3260, 1>>,
       <<3263, 3263, 1>>, <<3270, 3270, 1>>, <<3276, 3277, 1>>,
       <<3298, 3299, 1>>, <<3328, 3329, 1>>, <<3387, 3388, 1>>,
       <<3393, 3396, 1>>, <<3405, 3405, 1>>, <<3426, 3427, 1>>,
       <<3457, 3457, 1>>, <<3530, 3530, 1>>, <<3538, 3540, 1>>,
       <<3542, 3542, 1>>, <<3633, 3633, 1>>, <<3636, 3642, 1>>,
       <<3654, 3662, 1>>, <<3761, 3761, 1>>, <<3764, 3772, 1>>,
       <<3782, 3782, 1>>, <<3784, 3789, 1>>, <<3864, 3865, 1>>,
       <<3893, 3897, 2>>, <<3953, 3966, 1>>, <<3968, 3972, 1>>,
       <<3974, 3975, 1>>, <<3981, 3991, 1>>, <<3993, 4028, 1>>,
       <<4038, 4038, 1>>, <<4141, 4144, 1>>, <<4146, 4151, 1>>,
       <<4153, 4154, 1>>, <<4157, 4158, 1>>, <<4184, 4185, 1>>,
       <<4190, 4192, 1>>, <<4209, 4212, 1>>, <<4226, 4226, 1>>,
       <<4229, 4230, 1>>, <<4237, 4237, 1>>, <<4253, 4253, 1>>,
       <<4348, 4348, 1>>, <<4957, 4959, 1>>, <<5906, 5908, 1>>,
       <<5938, 5939, 1>>, <<5970, 5971, 1>>, <<6002, 6003, 1>>,
       <<6068, 6069, 1>>, <<6071, 6077, 1>>, <<6086, 6086, 1>>,
       <<6089, 6099, 1>>, <<6103, 6103, 1>>, <<6109, 6109, 1>>,
       <<6155, 6159, 1>>, <<6211, 6211, 1>>, <<6277, 6278, 1>>,
       <<6313, 6313, 1>>, <<6432, 6434, 1>>, <<6439, 6440, 1>>,
       <<6450, 6450, 1>>, <<6457, 6459, 1>>, <<6679, 6680, 1>>,
       <<6683, 6683, 1>>, <<6742, 6742, 1>>, <<6744, 6750, 1>>,
       <<6752, 6754, 2>>, <<6757, 6764, 1>>, <<6771, 6780, 1>>,
       <<6783, 6783, 1>>, <<6823, 6823, 1>>, <<6832, 6862, 1>>,
       <<6912, 6915, 1>>, <<6964, 6964, 1>>, <<6966, 6970, 1>>,
       <<6972, 6972, 1>>, <<6978, 6978, 1>>, <<7019, 7027, 1>>,
       <<7040, 7041, 1>>, <<7074, 7077, 1>>, <<7080, 7081, 1>>,
       <<7083, 7085, 1>>, <<7142, 7142, 1>>, <<7144, 7145, 1>>,
       <<7149, 7149, 1>>, <<7151, 7153, 1>>, <<7212, 7219, 1>>,
       <<7222, 7223, 1>>, <<7288, 7293, 1>>, <<7376, 7378, 1>>,
       <<7380, 7392, 1>>, <<7394, 7400, 1>>, <<7405, 7405, 1>>,
       <<7412, 7412, 1>>, <<7416, 7417, 1>>, <<7468, 7530, 1>>,
       <<7544, 7544, 1>>, <<7579, 7679, 1>>, <<8125, 8125, 1>>,
       <<8127, 8129, 1>>, <<8141, 8143, 1>>, <<8157, 8159, 1>>,
       <<8173, 8175, 1>>, <<8189, 8190, 1>>, <<8203, 8207, 1>>,
       <<8216, 8217, 1>>, <<8228, 8228, 1>>, <<8231, 8231, 1>>,
       <<8234, 8238, 1>>, <<8288, 8292, 1>>, <<8294, 8303, 1>>,
       <<8305, 8305, 1>>, <<8319, 8319, 1>>, <<8336, 8348, 1>>,
       <<8400, 8432, 1>>, <<11388, 11389, 1>>, <<11503, 11505, 1>>,
       <<11631, 11631, 1>>, <<11647, 11647, 1>>, <<11744, 11775, 1>>,
       <<11823, 11823, 1>>, <<12293, 12293, 1>>, <<12330, 12333, 1>>,
       <<12337, 12341, 1>>, <<12347, 12347, 1>>, <<12441, 12446, 1>>,
       <<12540, 12542, 1>>, <<40981, 40981, 1>>, <<42232, 42237, 1>>,
       <<42508, 42508, 1>>, <<42607, 42610, 1>>, <<42612, 42621, 1>>,
       <<42623, 42623, 1>>, <<42652, 42655, 1>>, <<42736, 42737, 1>>,
       <<42752, 42785, 1>>, <<42864, 42864, 1>>, <<42888, 42890, 1>>,
       <<42994, 42996, 1>>, <<43000, 43001, 1>>, <<43010, 43010, 1>>,
       <<43014, 43014, 1>>, <<43019, 43019, 1>>, <<43045, 43046, 1>>,
       <<43052, 43052, 1>>, <<43204, 43205, 1>>, <<43232, 43249, 1>>,
       <<43263, 43263, 1>>, <<43302, 43309, 1>>, <<43335, 43345, 1>>,
       <<43392, 43394, 1>>, <<43443, 43443, 1>>, <<43446, 43449, 1>>,
       <<43452, 43453, 1>>, <<43471, 43471, 1>>, <<43493, 43494, 1>>,
       <<43561, 43566, 1>>, <<43569, 43570, 1>>, <<43573, 43574, 1>>,
       <<43587, 43587, 1>>, <<43596, 43596, 1>>, <<43632, 43632, 1>>,
       <<43644, 43644, 1>>, <<43696, 43696, 1>>, <<43698, 43700, 1>>,
       <<43703, 43704, 1>>, <<43710, 43711, 1>>, <<43713, 43713, 1>>,
       <<43741, 43741, 1>>, <<43756, 43757, 1>>, <<43763, 43764, 1>>,
       <<43766, 43766, 1>>, <<43867, 43871, 1>>, <<43881, 43883, 1>>,
       <<44005, 44005, 1>>, <<44008, 44008, 1>>, <<44013, 44013, 1>>,
       <<64286, 64286, 1>>, <<64434, 64450, 1>>, <<65024, 65039, 1>>,
       <<65043, 65043, 1>>, <<65056, 65071, 1>>, <<65106, 65106, 1>>,
       <<65109, 65109, 1>>, <<65279, 65279, 1>>, <<65287, 65287, 1>>,
       <<65294, 65294, 1>>, <<65306, 65306, 1>>, <<65342, 65344, 2>>,
       <<65392, 65392, 1>>, <<65438, 65439, 1>>, <<65507, 65507, 1>>,
       <<65529, 65531, 1>>, <<66045, 66045, 1>>, <<66272, 66272, 1>>,
       <<66422, 66426, 1>>, <<67456, 67461, 1>>, <<67463, 67504, 1>>,
       <<67506, 67514, 1>>, <<68097, 68099, 1>>, <<68101, 68102, 1>>,
       <<68108, 68111, 1>>, <<68152, 68154, 1>>, <<68159, 68159, 1>>,
       <<68325, 68326, 1>>, <<68900, 68903, 1>>, <<69291, 69292, 1>>,
       <<69446, 69456, 1>>, <<69506, 69509, 1>>, <<69633, 69633, 1>>,
       <<69688, 69702, 1>>, <<69744, 69744, 1>>, <<69747, 69748, 1>>,
       <<69759, 69761, 1>>, <<69811, 69814, 1>>, <<69817, 69818, 1>>,
       <<69821, 69821, 1>>, <<69826, 69826, 1>>, <<69837, 69837, 1>>,
       <<69888, 69890, 1>>, <<69927, 69931, 1>>, <<69933, 69940, 1>>,
       <<70003, 70003, 1>>, <<70016, 70017, 1>>, <<70070, 70078, 1>>,
       <<70089, 70092, 1>>, <<70095, 70095, 1>>, <<70191, 70193, 1>>,
       <<70196, 70196, 1>>, <<70198, 70199, 1>>, <<70206, 70206, 1>>,
       <<70367, 70367, 1>>, <<70371, 70378, 1>>, <<70400, 70401, 1>>,
       <<70459, 70460, 1>>, <<70464, 70464, 1>>, <<70502, 70508, 1>>,
       <<70512, 70516, 1>>, <<70712, 70719, 1>>, <<70722, 70724, 1>>,
       <<70726, 70726, 1>>, <<70750, 70750, 1>>, <<70835, 70840, 1>>,
       <<70842, 70842, 1>>, <<70847, 70848, 1>>, <<70850, 70851, 1>>,
       <<71090, 71093, 1>>, <<71100, 71101, 1>>, <<71103, 71104, 1>>,
       <<71132, 71133, 1>>, <<71219, 71226, 1>>, <<71229, 71229, 1>>,
       <<71231, 71232, 1>>, <<71339, 71341, 2>>, <<71344, 71349, 1>>,
       <<71351, 71351, 1>>, <<71453, 71455, 1>>, <<71458, 71461, 1>>,
       <<71463, 71467, 1>>, <<71727, 71735, 1>>, <<71737, 71738, 1>>,
       <<71995, 71996, 1>>, <<71998, 71998, 1>>, <<72003, 72003, 1>>,
       <<72148, 72151, 1>>, <<72154, 72155, 1>>, <<72160, 72160, 1>>,
       <<72193, 72202, 1>>, <<72243, 72248, 1>>, <<72251, 72254, 1>>,
       <<72263, 72263, 1>>, <<72273, 72278, 1>>, <<72281, 72283, 1>>,
       <<72330, 72342, 1>>, <<72344, 72345, 1>>, <<72752, 72758, 1>>,
       <<72760, 72765, 1>>, <<72767, 72767, 1>>, <<72850, 72871, 1>>,
       <<72874, 72880, 1>>, <<72882, 72883, 1>>, <<72885, 72886, 1>>,
       <<73009, 73014, 1>>, <<73018, 73018, 1>>, <<73020, 73021, 1>>,
       <<73023, 73029, 1>>, <<73031, 73031, 1>>, <<73104, 73105, 1>>,
       <<73109, 73111, 2>>, <<73459, 73460, 1>>, <<78896, 78904, 1>>,
       <<92912, 92916, 1>>, <<92976, 92982, 1>>, <<92992, 92995, 1>>,
       <<94031, 94031, 1>>, <<94095, 94111, 1>>, <<94176, 94177, 1>>,
       <<94179, 94180, 1>>, <<110576, 110579, 1>>, <<110581, 110587, 1>>,
       <<110589, 110590, 1>>, <<113821, 113822, 1>>, <<113824, 113827, 1>>,
       <<118528, 118573, 1>>, <<118576, 118598, 1>>, <<119143, 119145, 1>>,
       <<119155, 119170, 1>>, <<119173, 119179, 1>>, <<119210, 119213, 1>>,
       <<119362, 119364, 1>>, <<121344, 121398, 1>>, <<121403, 121452, 1>>,
       <<121461, 121461, 1>>, <<121476, 121476, 1>>, <<121499, 121503, 1>>,
       <<121505, 121519, 1>>, <<122880, 122886, 1>>, <<122888, 122904, 1>>,
       <<122907, 122913, 1>>, <<122915, 122916, 1>>, <<122918, 122922, 1>>,
       <<123184, 123197, 1>>, <<123566, 123566, 1>>, <<123628, 123631, 1>>,
       <<125136, 125142, 1>>, <<125252, 125259, 1>>, <<127995, 127999, 1>>,
       <<917505, 917505, 1>>, <<917536, 917631, 1>>, <<917760, 917999, 1>> >>

\* str.lower of one code point, where the result is one code point
LowerMap ==
    << <<65, 90, 1, 32>>, <<192, 214, 1, 32>>, <<216, 222, 1, 32>>,
       <<256, 302, 2, 1>>, <<306, 310, 2, 1>>, <<313, 327, 2, 1>>,
       <<330, 374, 2, 1>>, <<376, 376, 1, -121>>, <<377, 381, 2, 1>>,
       <<385, 385, 1, 210>>, <<386, 388, 2, 1>>, <<390, 390, 1, 206>>,
       <<391, 391, 1, 1>>, <<393, 394, 1, 205>>, <<395, 395, 1, 1>>,
       <<398, 398, 1, 79>>, <<399, 399, 1, 202>>, <<400, 400, 1, 203>>,
       <<401, 401, 1, 1>>, <<403, 403, 1, 205>>, <<404, 404, 1, 207>>,
       <<406, 406, 1, 211>>, <<407, 407, 1, 209>>, <<408, 408, 1, 1>>,
       <<412, 412, 1, 211>>, <<413, 413, 1, 213>>, <<415, 415, 1, 214>>,
       <<416, 420, 2, 1>>, <<422, 422, 1, 218>>, <<423, 423, 1, 1>>,
       <<425, 425, 1, 218>>, <<428, 428, 1, 1>>, <<430, 430, 1, 218>>,
       <<431, 431, 1, 1>>, <<433, 434, 1, 217>>, <<435, 437, 2, 1>>,
       <<439, 439, 1, 219>>, <<440, 440, 1, 1>>, <<444, 444, 1, 1>>,
       <<452, 452, 1, 2>>, <<453, 453, 1, 1>>, <<455, 455, 1, 2>>,
       <<456, 456, 1, 1>>, <<458, 458, 1, 2>>, <<459, 475, 2, 1>>,
       <<478, 494, 2, 1>>, <<497, 497, 1, 2>>, <<498, 500, 2, 1>>,
       <<502, 502, 1, -97>>, <<503, 503, 1, -56>>, <<504, 542, 2, 1>>,
       <<544, 544, 1, -130>>, <<546, 562, 2, 1>>, <<570, 570, 1, 10795>>,
       <<571, 571, 1, 1>>, <<573, 573, 1, -163>>, <<574, 574, 1, 10792>>,
       <<577, 577, 1, 1>>, <<579, 579, 1, -195>>, <<580, 580, 1, 69>>,
       <<581, 581, 1, 71>>, <<582, 590, 2, 1>>, <<880, 882, 2, 1>>,
       <<886, 886, 1, 1>>, <<895, 895, 1, 116>>, <<902, 902, 1, 38>>,
       <<904, 906, 1, 37>>, <<908, 908, 1, 64>>, <<910, 911, 1, 63>>,
       <<913, 929, 1, 32>>, <<931, 939, 1, 32>>, <<975, 975, 1, 8>>,
       <<984, 1006, 2, 1>>, <<1012, 1012, 1, -60>>, <<1015, 1015, 1, 1>>,
       <<1017, 1017, 1, -7>>, <<1018, 1018, 1, 1>>, <<1021, 1023, 1, -130>>,
       <<1024, 1039, 1, 80>>, <<1040, 1071, 1, 32>>, <<1120, 1152, 2, 1>>,
       <<1162, 1214, 2, 1>>, <<1216, 1216, 1, 15>>, <<1217, 1229, 2, 1>>,
       <<1232, 1326, 2, 1>>, <<1329, 1366, 1, 48>>, <<4256, 4293, 1, 7264>>,
       <<4295, 4295, 1, 7264>>, <<4301, 4301, 1, 7264>>,
       <<5024, 5103, 1, 38864>>, <<5104, 5109, 1, 8>>,
       <<7312, 7354, 1, -3008>>, <<7357, 7359, 1, -3008>>,
       <<7680, 7828, 2, 1>>, <<7838, 7838, 1, -7615>>, <<7840, 7934, 2, 1>>,
       <<7944, 7951, 1, -8>>, <<7960, 7965, 1, -8>>, <<7976, 7983, 1, -8>>,
       <<7992, 7999, 1, -8>>, <<8008, 8013, 1, -8>>, <<8025, 8031, 2, -8>>,
       <<8040, 8047, 1, -8>>, <<8072, 8079, 1, -8>>, <<8088, 8095, 1, -8>>,
       <<8104, 8111, 1, -8>>, <<8120, 8121, 1, -8>>, <<8122, 8123, 1, -74>>,
       <<8124, 8124, 1, -9>>, <<8136, 8139, 1, -86>>, <<8140, 8140, 1, -9>>,
       <<8152, 8153, 1, -8>>, <<8154, 8155, 1, -100>>, <<8168, 8169, 1, -8>>,
       <<8170, 8171, 1, -112>>, <<8172, 8172, 1, -7>>,
       <<8184, 8185, 1, -128>>, <<8186, 8187, 1, -126>>,
       <<8188, 8188, 1, -9>>, <<8486, 8486, 1, -7517>>,
       <<8490, 8490, 1, -8383>>, <<8491, 8491, 1, -8262>>,
       <<8498, 8498, 1, 28>>, <<8544, 8559, 1, 16>>, <<8579, 8579, 1, 1>>,
       <<9398, 9423, 1, 26>>, <<11264, 11311, 1, 48>>,
       <<11360, 11360, 1, 1>>, <<11362, 11362, 1, -10743>>,
       <<11363, 11363, 1, -3814>>, <<11364, 11364, 1, -10727>>,
       <<11367, 11371, 2, 1>>, <<11373, 11373, 1, -10780>>,
       <<11374, 11374, 1, -10749>>, <<11375, 11375, 1, -10783>>,
       <<11376, 11376, 1, -10782>>, <<11378, 11378, 1, 1>>,
       <<11381, 11381, 1, 1>>, <<11390, 11391, 1, -10815>>,
       <<11392, 11490, 2, 1>>, <<11499, 11501, 2, 1>>,
       <<11506, 11506, 1, 1>>, <<42560, 42604, 2, 1>>,
       <<42624, 42650, 2, 1>>, <<42786, 42798, 2, 1>>,
       <<42802, 42862, 2, 1>>, <<42873, 42875, 2, 1>>,
       <<42877, 42877, 1, -35332>>, <<42878, 42886, 2, 1>>,
       <<42891, 42891, 1, 1>>, <<42893, 42893, 1, -42280>>,
       <<42896, 42898, 2, 1>>, <<42902, 42920, 2, 1>>,
       <<42922, 42922, 1, -42308>>, <<42923, 42923, 1, -42319>>,
       <<42924, 42924, 1, -42315>>, <<42925, 42925, 1, -42305>>,
       <<42926, 42926, 1, -42308>>, <<42928, 42928, 1, -42258>>,
       <<42929, 42929, 1, -42282>>, <<42930, 42930, 1, -42261>>,
       <<42931, 42931, 1, 928>>, <<42932, 42946, 2, 1>>,
       <<42948, 42948, 1, -48>>, <<42949, 42949, 1, -42307>>,
       <<42950, 42950, 1, -35384>>, <<42951, 42953, 2, 1>>,
       <<42960, 42960, 1, 1>>, <<42966, 42968, 2, 1>>,
       <<42997, 42997, 1, 1>>, <<65313, 65338, 1, 32>>,
       <<66560, 66599, 1, 40>>, <<66736, 66771, 1, 40>>,
       <<66928, 66938, 1, 39>>, <<66940, 66954, 1, 39>>,
       <<66956, 66962, 1, 39>>, <<66964, 66965, 1, 39>>,
       <<68736, 68786, 1, 64>>, <<71840, 71871, 1, 32>>,
       <<93760, 93791, 1, 32>>, <<125184, 125217, 1, 34>> >>

\* str.upper of one code point, where the result is one code point
UpperMap ==
    << <<97, 122, 1, -32>>, <<181, 181, 1, 743>>, <<224, 246, 1, -32>>,
       <<248, 254, 1, -32>>, <<255, 255, 1, 121>>, <<257, 303, 2, -1>>,
       <<305, 305, 1, -232>>, <<307, 311, 2, -1>>, <<314, 328, 2, -1>>,
       <<331, 375, 2, -1>>, <<378, 382, 2, -1>>, <<383, 383, 1, -300>>,
       <<384, 384, 1, 195>>, <<387, 389, 2, -1>>, <<392, 392, 1, -1>>,
       <<396, 396, 1, -1>>, <<402, 402, 1, -1>>, <<405, 405, 1, 97>>,
       <<409, 409, 1, -1>>, <<410, 410, 1, 163>>, <<414, 414, 1, 130>>,
       <<417, 421, 2, -1>>, <<424, 424, 1, -1>>, <<429, 429, 1, -1>>,
       <<432, 432, 1, -1>>, <<436, 438, 2, -1>>, <<441, 441, 1, -1>>,
       <<445, 445, 1, -1>>, <<447, 447, 1, 56>>, <<453, 453, 1, -1>>,
       <<454, 454, 1, -2>>, <<456, 456, 1, -1>>, <<457, 457, 1, -2>>,
       <<459, 459, 1, -1>>, <<460, 460, 1, -2>>, <<462, 476, 2, -1>>,
       <<477, 477, 1, -79>>, <<479, 495, 2, -1>>, <<498, 498, 1, -1>>,
       <<499, 499, 1, -2>>, <<501, 501, 1, -1>>, <<505, 543, 2, -1>>,
       <<547, 563, 2, -1>>, <<572, 572, 1, -1>>, <<575, 576, 1, 10815>>,
       <<578, 578, 1, -1>>, <<583, 591, 2, -1>>, <<592, 592, 1, 10783>>,
       <<593, 593, 1, 10780>>, <<594, 594, 1, 10782>>, <<595, 595, 1, -210>>,
       <<596, 596, 1, -206>>, <<598, 599, 1, -205>>, <<601, 601, 1, -202>>,
       <<603, 603, 1, -203>>, <<604, 604, 1, 42319>>, <<608, 608, 1, -205>>,
       <<609, 609, 1, 42315>>, <<611, 611, 1, -207>>, <<613, 613, 1, 42280>>,
       <<614, 614, 1, 42308>>, <<616, 616, 1, -209>>, <<617, 617, 1, -211>>,
       <<618, 618, 1, 42308>>, <<619, 619, 1, 10743>>,
       <<620, 620, 1, 42305>>, <<623, 623, 1, -211>>, <<625, 625, 1, 10749>>,
       <<626, 626, 1, -213>>, <<629, 629, 1, -214>>, <<637, 637, 1, 10727>>,
       <<640, 640, 1, -218>>, <<642, 642, 1, 42307>>, <<643, 643, 1, -218>>,
       <<647, 647, 1, 42282>>, <<648, 648, 1, -218>>, <<649, 649, 1, -69>>,
       <<650, 651, 1, -217>>, <<652, 652, 1, -71>>, <<658, 658, 1, -219>>,
       <<669, 669, 1, 42261>>, <<670, 670, 1, 42258>>, <<837, 837, 1, 84>>,
       <<881, 883, 2, -1>>, <<887, 887, 1, -1>>, <<891, 893, 1, 130>>,
       <<940, 940, 1, -38>>, <<941, 943, 1, -37>>, <<945, 961, 1, -32>>,
       <<962, 962, 1, -31>>, <<963, 971, 1, -32>>, <<972, 972, 1, -64>>,
       <<973, 974, 1, -63>>, <<976, 976, 1, -62>>, <<977, 977, 1, -57>>,
       <<981, 981, 1, -47>>, <<982, 982, 1, -54>>, <<983, 983, 1, -8>>,
       <<985, 1007, 2, -1>>, <<1008, 1008, 1, -86>>, <<1009, 1009, 1, -80>>,
       <<1010, 1010, 1, 7>>, <<1011, 1011, 1, -116>>, <<1013, 1013, 1, -96>>,
       <<1016, 1016, 1, -1>>, <<1019, 1019, 1, -1>>, <<1072, 1103, 1, -32>>,
       <<1104, 1119, 1, -80>>, <<1121, 1153, 2, -1>>, <<1163, 1215, 2, -1>>,
       <<1218, 1230, 2, -1>>, <<1231, 1231, 1, -15>>, <<1233, 1327, 2, -1>>,
       <<1377, 1414, 1, -48>>, <<4304, 4346, 1, 3008>>,
       <<4349, 4351, 1, 3008>>, <<5112, 5117, 1, -8>>,
       <<7296, 7296, 1, -6254>>, <<7297, 7297, 1, -6253>>,
       <<7298, 7298, 1, -6244>>, <<7299, 7300, 1, -6242>>,
       <<7301, 7301, 1, -6243>>, <<7302, 7302, 1, -6236>>,
       <<7303, 7303, 1, -6181>>, <<7304, 7304, 1, 35266>>,
       <<7545, 7545, 1, 35332>>, <<7549, 7549, 1, 3814>>,
       <<7566, 7566, 1, 35384>>, <<7681, 7829, 2, -1>>,
       <<7835, 7835, 1, -59>>, <<7841, 7935, 2, -1>>, <<7936, 7943, 1, 8>>,
       <<7952, 7957, 1, 8>>, <<7968, 7975, 1, 8>>, <<7984, 7991, 1, 8>>,
       <<8000, 8005, 1, 8>>, <<8017, 8023, 2, 8>>, <<8032, 8039, 1, 8>>,
       <<8048, 8049, 1, 74>>, <<8050, 8053, 1, 86>>, <<8054, 8055, 1, 100>>,
       <<8056, 8057, 1, 128>>, <<8058, 8059, 1, 112>>,
       <<8060, 8061, 1, 126>>, <<8112, 8113, 1, 8>>,
       <<8126, 8126, 1, -7205>>, <<8144, 8145, 1, 8>>, <<8160, 8161, 1, 8>>,
       <<8165, 8165, 1, 7>>, <<8526, 8526, 1, -28>>, <<8560, 8575, 1, -16>>,
       <<8580, 8580, 1, -1>>, <<9424, 9449, 1, -26>>,
       <<11312, 11359, 1, -48>>, <<11361, 11361, 1, -1>>,
       <<11365, 11365, 1, -10795>>, <<11366, 11366, 1, -10792>>,
       <<11368, 11372, 2, -1>>, <<11379, 11379, 1, -1>>,
       <<11382, 11382, 1, -1>>, <<11393, 11491, 2, -1>>,
       <<11500, 11502, 2, -1>>, <<11507, 11507, 1, -1>>,
       <<11520, 11557, 1, -7264>>, <<11559, 11559, 1, -7264>>,
       <<11565, 11565, 1, -7264>>, <<42561, 42605, 2, -1>>,
       <<42625, 42651, 2, -1>>, <<42787, 42799, 2, -1>>,
       <<42803, 42863, 2, -1>>, <<42874, 42876, 2, -1>>,
       <<42879, 42887, 2, -1>>, <<42892, 42892, 1, -1>>,
       <<42897, 42899, 2, -1>>, <<42900, 42900, 1, 48>>,
       <<42903, 42921, 2, -1>>, <<42933, 42947, 2, -1>>,
       <<42952, 42954, 2, -1>>, <<42961, 42961, 1, -1>>,
       <<42967, 42969, 2, -1>>, <<42998, 42998, 1, -1>>,
       <<43859, 43859, 1, -928>>, <<43888, 43967, 1, -38864>>,
       <<65345, 65370, 1, -32>>, <<66600, 66639, 1, -40>>,
       <<66776, 66811, 1, -40>>, <<66967, 66977, 1, -39>>,
       <<66979, 66993, 1, -39>>, <<66995, 67001, 1, -39>>,
       <<67003, 67004, 1, -39>>, <<68800, 68850, 1, -64>>,
       <<71872, 71903, 1, -32>>, <<93792, 93823, 1, -32>>,
       <<125218, 125251, 1, -34>> >>

\* str.upper of one code point, where the result is two or three code points
UpperMany ==
    << <<223, <<83, 83>>>>, <<329, <<700, 78>>>>, <<496, <<74, 780>>>>,
       <<912, <<921, 776, 769>>>>, <<944, <<933, 776, 769>>>>,
       <<1415, <<1333, 1362>>>>, <<7830, <<72, 817>>>>,
       <<7831, <<84, 776>>>>, <<7832, <<87, 778>>>>, <<7833, <<89, 778>>>>,
       <<7834, <<65, 702>>>>, <<8016, <<933, 787>>>>,
       <<8018, <<933, 787, 768>>>>, <<8020, <<933, 787, 769>>>>,
       <<8022, <<933, 787, 834>>>>, <<8064, <<7944, 921>>>>,
       <<8065, <<7945, 921>>>>, <<8066, <<7946, 921>>>>,
       <<8067, <<7947, 921>>>>, <<8068, <<7948, 921>>>>,
       <<8069, <<7949, 921>>>>, <<8070, <<7950, 921>>>>,
       <<8071, <<7951, 921>>>>, <<8072, <<7944, 921>>>>,
       <<8073, <<7945, 921>>>>, <<8074, <<7946, 921>>>>,
       <<8075, <<7947, 921>>>>, <<8076, <<7948, 921>>>>,
       <<8077, <<7949, 921>>>>, <<8078, <<7950, 921>>>>,
       <<8079, <<7951, 921>>>>, <<8080, <<7976, 921>>>>,
       <<8081, <<7977, 921>>>>, <<8082, <<7978, 921>>>>,
       <<8083, <<7979, 921>>>>, <<8084, <<7980, 921>>>>,
       <<8085, <<7981, 921>>>>, <<8086, <<7982, 921>>>>,
       <<8087, <<7983, 921>>>>, <<8088, <<7976, 921>>>>,
       <<8089, <<7977, 921>>>>, <<8090, <<7978, 921>>>>,
       <<8091, <<7979, 921>>>>, <<8092, <<7980, 921>>>>,
       <<8093, <<7981, 921>>>>, <<8094, <<7982, 921>>>>,
       <<8095, <<7983, 921>>>>, <<8096, <<8040, 921>>>>,
       <<8097, <<8041, 921>>>>, <<8098, <<8042, 921>>>>,
       <<8099, <<8043, 921>>>>, <<8100, <<8044, 921>>>>,
       <<8101, <<8045, 921>>>>, <<8102, <<8046, 921>>>>,
       <<8103, <<8047, 921>>>>, <<8104, <<8040, 921>>>>,
       <<8105, <<8041, 921>>>>, <<8106, <<8042, 921>>>>,
       <<8107, <<8043, 921>>>>, <<8108, <<8044, 921>>>>,
       <<8109, <<8045, 921>>>>, <<8110, <<8046, 921>>>>,
       <<8111, <<8047, 921>>>>, <<8114, <<8122, 921>>>>,
       <<8115, <<913, 921>>>>, <<8116, <<902, 921>>>>,
       <<8118, <<913, 834>>>>, <<8119, <<913, 834, 921>>>>,
       <<8124, <<913, 921>>>>, <<8130, <<8138, 921>>>>,
       <<8131, <<919, 921>>>>, <<8132, <<905, 921>>>>,
       <<8134, <<919, 834>>>>, <<8135, <<919, 834, 921>>>>,
       <<8140, <<919, 921>>>>, <<8146, <<921, 776, 768>>>>,
       <<8147, <<921, 776, 769>>>>, <<8150, <<921, 834>>>>,
       <<8151, <<921, 776, 834>>>>, <<8162, <<933, 776, 768>>>>,
       <<8163, <<933, 776, 769>>>>, <<8164, <<929, 787>>>>,
       <<8166, <<933, 834>>>>, <<8167, <<933, 776, 834>>>>,
       <<8178, <<8186, 921>>>>, <<8179, <<937, 921>>>>,
       <<8180, <<911, 921>>>>, <<8182, <<937, 834>>>>,
       <<8183, <<937, 834, 921>>>>, <<8188, <<937, 921>>>>,
       <<64256, <<70, 70>>>>, <<64257, <<70, 73>>>>, <<64258, <<70, 76>>>>,
       <<64259, <<70, 70, 73>>>>, <<64260, <<70, 70, 76>>>>,
       <<64261, <<83, 84>>>>, <<64262, <<83, 84>>>>,
       <<64275, <<1348, 1350>>>>, <<64276, <<1348, 1333>>>>,
       <<64277, <<1348, 1339>>>>, <<64278, <<1358, 1350>>>>,
       <<64279, <<1348, 1341>>>> >>

InTable(c, table) ==
    \E k \in 1..Len(table) :
        /\ table[k][1] <= c
        /\ c <= table[k][2]
        /\ (c - table[k][1]) % table[k][3] = 0

\* the image of c under a map; c itself when no row holds c
ApplyMap(c, table) ==
    IF InTable(c, table)
    THEN c + table[CHOOSE k \in 1..Len(table) :
                      /\ table[k][1] <= c
                      /\ c <= table[k][2]
                      /\ (c - table[k][1]) % table[k][3] = 0][4]
    ELSE c

\* \d of re on str
IsDigit(c) == IF c < 128 THEN IsAsciiDigit(c) ELSE InTable(c, DigitTable)

\* \w of re on str
IsWordChar(c) ==
    IF c < 128 THEN IsAsciiUpper(c) \/ IsAsciiLower(c) \/ IsAsciiDigit(c) \/ c = 95
    ELSE InTable(c, WordTable)

\* the number of code points of parts[1..i-1]; a part has one to three
PartsBefore(parts, i) ==
    Cardinality({ at \in (1..(i - 1)) \X (1..3) : at[2] <= Len(parts[at[1]]) })

\* "".join(parts) for parts of one to three code points
Flatten(parts) ==
    IF \A i \in 1..Len(parts) : Len(parts[i]) = 1
    THEN [i \in 1..Len(parts) |-> parts[i][1]]
    ELSE [j \in 1..PartsBefore(parts, Len(parts) + 1) |->
             parts[CHOOSE i \in 1..Len(parts) :
                      PartsBefore(parts, i) < j /\ j <= PartsBefore(parts, i + 1)]
                  [j - PartsBefore(parts,
                                   CHOOSE i \in 1..Len(parts) :
                                      PartsBefore(parts, i) < j
                                      /\ j <= PartsBefore(parts, i + 1))]]

\* the capital sigma s[i] is final: a cased character comes before it and
\* none after it, case-ignorable characters in between left aside
FinalSigma(s, i) ==
    /\ \E j \in 1..(i - 1) :
          /\ InTable(s[j], CasedTable)
          /\ \A k \in (j + 1)..(i - 1) : InTable(s[k], IgnorableTable)
    /\ ~\E j \in (i + 1)..Len(s) :
          /\ InTable(s[j], CasedTable)
          /\ \A k \in (i + 1)..(j - 1) : InTable(s[k], IgnorableTable)

\* str.lower / str.upper of one code point that stands alone
LowerChar(c) ==
    IF c < 128 THEN (IF IsAsciiUpper(c) THEN c + 32 ELSE c) ELSE ApplyMap(c, LowerMap)
UpperChar(c) ==
    IF c < 128 THEN (IF IsAsciiLower(c) THEN c - 32 ELSE c) ELSE ApplyMap(c, UpperMap)

\* what str.lower makes of s[i]: U+0130 becomes two code points, the capital
\* sigma U+03A3 the final or the medial small sigma
LowerAt(s, i) ==
    IF s[i] = 304 THEN <<105, 775>>
    ELSE IF s[i] = 931 THEN <<IF FinalSigma(s, i) THEN 962 ELSE 963>>
    ELSE <<LowerChar(s[i])>>

\* what str.upper makes of the code point c
UpperAt(c) ==
    IF c >= 128 /\ \E k \in 1..Len(UpperMany) : UpperMany[k][1] = c
    THEN UpperMany[CHOOSE k \in 1..Len(UpperMany) : UpperMany[k][1] = c][2]
    ELSE <<UpperChar(c)>>

\* str.lower / str.upper
Lower(s) == Flatten(SubSeq([i \in 1..Len(s) |-> LowerAt(s, i)], 1, Len(s)))
Upper(s) == Flatten(SubSeq([i \in 1..Len(s) |-> UpperAt(s[i])], 1, Len(s)))

\* str.isupper(): at least one uppercase character and no lowercase or
\* titlecase one
IsUpperStr(s) ==
    /\ \E i \in 1..Len(s) :
          IF s[i] < 128 THEN IsAsciiUpper(s[i]) ELSE InTable(s[i], UpperTable)
    /\ \A i \in 1..Len(s) :
          IF s[i] < 128 THEN ~IsAsciiLower(s[i])
          ELSE ~InTable(s[i], LowerTable) /\ ~InTable(s[i], TitleTable)

\* the code points a literal p of a pattern matches under re.IGNORECASE
CaseEq(c, p) ==
    \/ c = p
    \/ (IsAsciiLower(p) /\ c = p - 32)
    \/ (p = 105 /\ c \in {304, 305})
    \/ (p = 107 /\ c = 8490)
    \/ (p = 115 /\ c = 383)

\* utils._ALLOWED_CHAR_RE: one allowed character.
IsAllowedChar(c) ==
    \/ IsAsciiUpper(c) \/ IsAsciiLower(c) \/ IsAsciiDigit(c)
    \/ IsCJK(c)
    \/ c \in 12288..12351
    \/ c \in 65280..65519
    \/ c \in {40, 41, 34, 39, 8217, 8216, 8220, 8221, 8212, 8211, 45, 8230, 183, 8226}
    \/ IsSpace(c)

(***************************************************************************)
(* String helpers.                                                         *)
(***************************************************************************)

\* w occurs in s starting right after position i (0-based offset).
MatchAt(s, w, i) ==
    /\ i + Len(w) <= Len(s)
    /\ \A j \in 1..Len(w) : s[i + j] = w[j]

\* Python `w in s`.
HasSub(s, w) == \E i \in 0..(Len(s) - Len(w)) : MatchAt(s, w, i)

StartsWith(s, w) == MatchAt(s, w, 0)
EndsWith(s, w) == Len(w) <= Len(s) /\ MatchAt(s, w, Len(s) - Len(w))

RECURSIVE LStripIdx(_, _)
\* index of the first character at or after i that is no whitespace (Len+1 if none)
LStripIdx(s, i) ==
    IF i > Len(s) THEN i
    ELSE IF IsSpace(s[i]) THEN LStripIdx(s, i + 1) ELSE i

RECURSIVE RStripIdx(_, _)
\* index of the last character at or before i that is no whitespace (0 if none)
RStripIdx(s, i) ==
    IF i < 1 THEN 0
    ELSE IF IsSpace(s[i]) THEN RStripIdx(s, i - 1) ELSE i

\* str.strip()
Strip(s) == SubSeq(s, LStripIdx(s, 1), RStripIdx(s, Len(s)))

RECURSIVE RStripSetIdx(_, _, _)
RStripSetIdx(s, cs, i) ==
    IF i < 1 THEN 0
    ELSE IF s[i] \in cs THEN RStripSetIdx(s, cs, i - 1) ELSE i

\* str.rstrip(chars)
RStripChars(s, cs) == SubSeq(s, 1, RStripSetIdx(s, cs, Len(s)))

\* str.rstrip()
RStrip(s) == SubSeq(s, 1, RStripIdx(s, Len(s)))

\* re.sub(r"\s+", " ", s)
CollapseSpaces(s) ==
    LET collapsed(keep) == [k \in 1..Len(keep) |-> IF IsSpace(s[keep[k]]) THEN 32
                                                                         ELSE s[keep[k]]]
    IN collapsed(SelectSeq([i \in 1..Len(s) |-> i],
                           LAMBDA i : ~(IsSpace(s[i]) /\ i > 1 /\ IsSpace(s[i - 1]))))

\* str.splitlines(): the line boundaries of Python, "\r\n" being one boundary
LineBreaks == {10, 11, 12, 13, 28, 29, 30, 133, 8232, 8233}

SplitLines(s) ==
    LET n == Len(s)
        \* brk: where a boundary starts; the "\n" of a "\r\n" starts none
        endOf(i) == IF s[i] = 13 /\ i < n /\ s[i + 1] = 10 THEN i + 1 ELSE i
        startOf(brk, k) == IF k = 1 THEN 1 ELSE endOf(brk[k - 1]) + 1
        withLast(closed, start) == IF start <= n THEN Append(closed, SubSeq(s, start, n))
                                                 ELSE closed
        split(brk) == withLast([k \in 1..Len(brk) |-> SubSeq(s, startOf(brk, k), brk[k] - 1)],
                               startOf(brk, Len(brk) + 1))
    IN split(SelectSeq([i \in 1..n |-> i],
                       LAMBDA i : s[i] \in LineBreaks
                                  /\ ~(s[i] = 10 /\ i > 1 /\ s[i - 1] = 13)))

RECURSIVE JoinWith(_, _)
\* sep.join(parts)
JoinWith(parts, sep) ==
    IF parts = <<>> THEN <<>>
    ELSE IF Len(parts) = 1 THEN parts[1]
    ELSE parts[1] \o sep \o JoinWith(Tail(parts), sep)

\* the number of positions of s that satisfy a class, by class
CountAllowed(s) == Cardinality({i \in 1..Len(s) : IsAllowedChar(s[i])})
CountWord(s) == Cardinality({i \in 1..Len(s) : IsWordChar(s[i])})
CountDistinct(s) == Cardinality({s[i] : i \in 1..Len(s)})

\* re.search(r"[set]{n,}", s): a run of at least n characters of cs
HasRun(s, cs, n) ==
    \E i \in 0..(Len(s) - n) : \A j \in 1..n : s[i + j] \in cs

\* the least element of a non-empty set of integers
MinOf(S) == CHOOSE x \in S : \A y \in S : x <= y

RECURSIVE RemoveAnyOf(_, _)
\* re.sub(r"(w1|w2|...)", "", s): the leftmost match is removed, at one position
\* the first alternative that matches, and the scan goes on after it
RemoveAnyOf(s, ws) ==
    LET cut(i, k) == SubSeq(s, 1, i) \o RemoveAnyOf(SubSeq(s, i + Len(ws[k]) + 1, Len(s)), ws)
        first(i) == cut(i, MinOf({x \in 1..Len(ws) : MatchAt(s, ws[x], i)}))
        from(at) == IF at = {} THEN s ELSE first(MinOf(at))
    IN from({i \in 0..Len(s) : \E k \in 1..Len(ws) : MatchAt(s, ws[k], i)})

\* re.search(r"(w1|w2|...)", s)
HasAnyOf(s, ws) == \E k \in 1..Len(ws) : HasSub(s, ws[k])

\* the literal w of a pattern compiled with re.IGNORECASE matches s right
\* after position i
MatchAtIgnoreCase(s, w, i) ==
    /\ i + Len(w) <= Len(s)
    /\ \A j \in 1..Len(w) : CaseEq(s[i + j], w[j])

\* re.search(r"(w1|w2|...)", s, re.IGNORECASE)
HasAnyOfIgnoreCase(s, ws) ==
    \E k \in 1..Len(ws) : \E i \in 0..(Len(s) - Len(ws[k])) : MatchAtIgnoreCase(s, ws[k], i)

(***************************************************************************)
(* quizcraft/utils.py                                                      *)
(***************************************************************************)

\* normalize_line
normalize_line(line) ==
    CollapseSpaces(Strip([i \in 1..Len(line) |-> IF line[i] = 160 THEN 32 ELSE line[i]]))

\* the literals "note", "notes", "page" of is_low_info_line
LowInfoWords ==
    { <<110, 111, 116, 101>>, <<110, 111, 116, 101, 115>>, <<112, 97, 103, 101>> }

\* is_low_info_line
is_low_info_line(line) ==
    \/ line = <<>>
    \/ Strip(Lower(line)) \in LowInfoWords
    \/ \A i \in 1..Len(line) : IsDigit(line[i])
    \/ Len(line) <= 2
    \/ (5 * CountDistinct(line) < Len(line) /\ Len(line) > 5)
    \/ 10 * CountWord(line) < 3 * Len(line)
    \/ HasRun(line, {45, 95, 61, 126}, 4)
    \/ HasRun(line, {42, 8226, 183}, 3)

\* allowed_char_ratio(text) < num / den  (the ratio of an empty text is 0.0)
allowed_char_ratio_below(text, num, den) ==
    IF text = <<>> THEN 0 < num
    ELSE CountAllowed(text) * den < num * Len(text)

\* is_noisy_line
is_noisy_line(line) ==
    \/ \E i \in 1..Len(line) : line[i] = 65533
    \/ \E i \in 1..Len(line) : line[i] \in (0..8) \cup (11..31)
    \/ (Len(line) >= 8 /\ allowed_char_ratio_below(line, 6, 10))

RECURSIVE SkipWhile(_, _, _)
\* the first index at or after i whose character is outside the class;
\* kind: "space" (\s), "digit" (\d), "ascii_digit" ([0-9])
SkipWhile(s, i, kind) ==
    IF i > Len(s) THEN i
    ELSE LET in_class == CASE kind = "space" -> IsSpace(s[i])
                           [] kind = "digit" -> IsDigit(s[i])
                           [] OTHER -> IsAsciiDigit(s[i])
         IN IF in_class THEN SkipWhile(s, i + 1, kind) ELSE i

\* ^U+7B2C \s* \d+ \s* [U+7AE0 U+7BC0 U+7BC7] .*
TitleChapter(s) ==
    /\ Len(s) >= 1 /\ s[1] = 31532
    /\ \E a \in {SkipWhile(s, 2, "space")} :
       \E b \in {SkipWhile(s, a, "digit")} :
       \E c \in {SkipWhile(s, b, "space")} :
          /\ b > a
          /\ c <= Len(s) /\ s[c] \in {31456, 31680, 31687}

\* ^[0-9]+\.[0-9]+(\.[0-9]+)?\s+.+
TitleNumbered(s) ==
    \E a \in {SkipWhile(s, 1, "ascii_digit")} :
    \E b \in {SkipWhile(s, a + 1, "ascii_digit")} :
    \E c \in {SkipWhile(s, b + 1, "ascii_digit")} :
       \* k is b, or c when a second ".digits" follows.  After the k - 1
       \* characters of the number: one whitespace, then one more character
       \* that is no line feed
       /\ a > 1 /\ a <= Len(s) /\ s[a] = 46 /\ b > a + 1
       /\ \E k \in {b} \cup (IF b <= Len(s) /\ s[b] = 46 /\ c > b + 1 THEN {c} ELSE {}) :
             /\ k + 1 <= Len(s) /\ IsSpace(s[k])
             /\ \E e \in (k + 1)..Len(s) :
                   /\ \A j \in k..(e - 1) : IsSpace(s[j])
                   /\ s[e] # 10

\* ^[bullet]\s*\S+
TitleBullet(s) ==
    /\ Len(s) >= 1 /\ s[1] \in {8226, 9612, 9632, 9670, 9613, 9654, 9658}
    /\ SkipWhile(s, 2, "space") <= Len(s)

\* detect_section_title(line) is not None
detect_section_title(line) ==
    \/ TitleChapter(line)
    \/ TitleNumbered(line)
    \/ TitleBullet(line)
    \/ (IsUpperStr(line) /\ 3 <= Len(line) /\ Len(line) <= 30)

(***************************************************************************)
(* quizcraft/pipeline.py: chunk text helpers.  A chunk is a record         *)
(* [chunk_id, page, section_title, text].                                  *)
(***************************************************************************)

\* _chunk_body_lines
chunk_body_lines(chunk) ==
    LET normalized(raw) == [i \in 1..Len(raw) |-> normalize_line(raw[i])]
        \* the lines that are left after normalize_line, without the title line
        untitled(lines) ==
            IF lines # <<>>
               /\ (detect_section_title(lines[1])
                   \/ (chunk.section_title # <<>> /\ lines[1] = chunk.section_title))
            THEN Tail(lines) ELSE lines
        body == untitled(SelectSeq(normalized(SplitLines(chunk.text)), LAMBDA l : l # <<>>))
    IN SelectSeq(body, LAMBDA l : ~is_low_info_line(l) /\ ~is_noisy_line(l)
                                   /\ ~detect_section_title(l))

\* _is_low_info_chunk
is_low_info_chunk(chunk) ==
    LET short_or_noisy(body) == Len(body) < 40 \/ allowed_char_ratio_below(body, 6, 10)
        low(lines) == lines = <<>> \/ short_or_noisy(JoinWith(lines, <<32>>))
    IN low(chunk_body_lines(chunk))

\* the prefix s[:n]
Prefix(s, n) == SubSeq(s, 1, IF Len(s) < n THEN Len(s) ELSE n)

\* _extract_quote_from_chunk(chunk, min_len, max_len)
extract_quote(chunk, min_len, max_len) ==
    LET ok(l, n) == Len(l) >= n /\ ~allowed_char_ratio_below(l, 7, 10)
        \* first, second: the lines of at least min_len, of at least 20
        \* characters; body: the lines joined
        pick(first, second, body) ==
            IF first # <<>> THEN Prefix(first[1], max_len)
            ELSE IF second # <<>> THEN Prefix(second[1], max_len)
            ELSE IF ok(body, min_len) THEN Prefix(body, max_len)
            ELSE IF ok(body, 20) THEN Prefix(body, max_len)
            ELSE <<>>
        from(lines) == pick(SelectSeq(lines, LAMBDA l : ok(l, min_len)),
                            SelectSeq(lines, LAMBDA l : ok(l, 20)),
                            Strip(JoinWith(lines, <<32>>)))
    IN from(chunk_body_lines(chunk))

\* the defaults of _extract_quote_from_chunk's min_len and max_len
QuoteMinLen == 40
QuoteMaxLen == 80

extract_quote_from_chunk(chunk) == extract_quote(chunk, QuoteMinLen, QuoteMaxLen)

(***************************************************************************)
(* quizcraft/pipeline.py: the checks on a question's text.                 *)
(***************************************************************************)

\* the literal alternatives of _META_QUESTION_RE; chunk(?:_id)? matches
\* exactly where "chunk" does
MetaWords ==
    << <<21738, 19968, 38913>>,      \* U+54EA U+4E00 U+9801
       <<21738, 19968, 27573>>,      \* U+54EA U+4E00 U+6BB5
       <<38913, 30908>>,             \* U+9801 U+78BC
       <<38913, 34399>>,             \* U+9801 U+865F
       <<38913, 38754>>,             \* U+9801 U+9762
       <<99, 104, 117, 110, 107>>,   \* "chunk"
       <<20986, 34389>>,             \* U+51FA U+8655
       <<20358, 28304>>,             \* U+4F86 U+6E90
       <<27573, 33853>> >>           \* U+6BB5 U+843D

\* page\b : "page" followed by the end of the text or by a non-word character
HasPageWord(s) ==
    \E i \in 0..(Len(s) - 4) :
        /\ MatchAtIgnoreCase(s, <<112, 97, 103, 101>>, i)
        /\ (i + 4 = Len(s) \/ ~IsWordChar(s[i + 5]))

\* p\d+_c\d+ : a citation marker such as p3_c12
HasCitationMarker(s) ==
    \E i \in 1..Len(s) :
        /\ CaseEq(s[i], 112)
        /\ \E a \in {SkipWhile(s, i + 1, "digit")} :
              /\ a > i + 1
              /\ a + 2 <= Len(s)
              /\ s[a] = 95 /\ CaseEq(s[a + 1], 99)
              /\ IsDigit(s[a + 2])

\* _is_meta_question (the pattern is matched ignoring case)
is_meta_question(text) ==
    /\ text # <<>>
    /\ (HasAnyOfIgnoreCase(text, MetaWords) \/ HasPageWord(text) \/ HasCitationMarker(text))

\* _QUESTION_WORD_RE
QuestionWords ==
    << <<20160, 40636>>,   \* U+4EC0 U+9EBC
       <<28858, 20309>>,   \* U+70BA U+4F55
       <<22914, 20309>>,   \* U+5982 U+4F55
       <<21738>>,          \* U+54EA
       <<24190>>,          \* U+5E7E
       <<22810, 23569>>,   \* U+591A U+5C11
       <<26159, 21542>>,   \* U+662F U+5426
       <<33021, 21542>>,   \* U+80FD U+5426
       <<21487, 21542>>,   \* U+53EF U+5426
       <<21966>>,          \* U+55CE
       <<21602>> >>        \* U+5462

\* the sentence-final particles U+55CE and U+5462
FinalParticles == {21966, 21602}

\* the question marks "?" and U+FF1F
QuestionMarks == {63, 65311}

\* _is_question_sentence
is_question_sentence(text) ==
    /\ text # <<>>
    /\ \E stripped \in {Strip(text)} :
          \/ (stripped # <<>> /\ stripped[Len(stripped)] \in QuestionMarks)
          \/ (stripped # <<>> /\ stripped[Len(stripped)] \in FinalParticles)
          \/ HasAnyOf(stripped, QuestionWords)

\* the prefixes _fix_tf_question removes: U+8ACB U+554F, U+8ACB U+56DE U+7B54
AskPrefixes == << <<35531, 21839>>, <<35531, 22238, 31572>> >>

\* the words _fix_tf_question removes everywhere
WhetherWords ==
    << <<26159, 21542>>,          \* U+662F U+5426
       <<26159, 19981, 26159>>,   \* U+662F U+4E0D U+662F
       <<33021, 21542>>,          \* U+80FD U+5426
       <<21487, 21542>> >>        \* U+53EF U+5426

\* re.sub(r"^(p1|p2)", "", s)
RemovePrefixOf(s, ws) ==
    LET without(hit) == IF hit = {} THEN s ELSE SubSeq(s, Len(ws[MinOf(hit)]) + 1, Len(s))
    IN without({k \in 1..Len(ws) : StartsWith(s, ws[k])})

\* re.sub(r"(U+55CE|U+5462)$", "", s): $ matches at the end and before a final "\n"
RemoveFinalParticle(s) ==
    LET n == Len(s)
    IN IF n >= 2 /\ s[n] = 10 /\ s[n - 1] \in FinalParticles
       THEN SubSeq(s, 1, n - 2) \o <<10>>
       ELSE IF n >= 1 /\ s[n] \in FinalParticles THEN SubSeq(s, 1, n - 1)
       ELSE s

\* _fix_tf_question; the empty text stands for None
fix_tf_question(text) ==
    IF text = <<>> THEN <<>>
    ELSE LET checked(cleaned) == IF cleaned = <<>> THEN <<>>
                                 ELSE IF is_question_sentence(cleaned) THEN <<>>
                                 ELSE cleaned
             no_mark == RStripChars(Strip(text), QuestionMarks)
             no_prefix == Strip(RemovePrefixOf(no_mark, AskPrefixes))
             no_whether == RemoveAnyOf(no_prefix, WhetherWords)
         IN checked(Strip(RemoveFinalParticle(no_whether)))

\* _BANNED_MCQ_RE, matched ignoring case
BannedChoiceWords ==
    << <<97, 108, 108, 32, 111, 102, 32, 116, 104, 101, 32, 97, 98, 111, 118, 101>>,
                                          \* "all of the above"
       <<20197, 19978, 30342, 26159>>,         \* U+4EE5 U+4E0A U+7686 U+662F
       <<20197, 19978, 30342, 23565>>,         \* U+4EE5 U+4E0A U+7686 U+5C0D
       <<20197, 19978, 30342, 28858>>,         \* U+4EE5 U+4E0A U+7686 U+70BA
       <<20197, 19978, 30342, 27491, 30906>> >>  \* U+4EE5 U+4E0A U+7686 U+6B63 U+78BA

\* _has_banned_mcq_choice
has_banned_mcq_choice(choices) ==
    \E i \in 1..Len(choices) : HasAnyOfIgnoreCase(choices[i], BannedChoiceWords)

RECURSIVE TitlesFrom(_, _)
\* re.findall(r"U+300A[^U+300B]{2,20}U+300B", text) from index i on: a title opens
\* at a U+300A whose next U+300B lies 2 to 20 characters further
TitlesFrom(text, i) ==
    LET n == Len(text)
        least(cl) == IF cl = {} THEN 0 ELSE MinOf(cl)
        closeOf(o) == least({j \in (o + 1)..n : text[j] = 12299})
        title(o, c) == <<SubSeq(text, o, c)>> \o TitlesFrom(text, c + 1)
        from(opens) == IF opens = {} THEN <<>> ELSE title(MinOf(opens), closeOf(MinOf(opens)))
    IN from({o \in i..n : /\ text[o] = 12298
                          /\ \E c \in {closeOf(o)} : c - o - 1 >= 2 /\ c - o - 1 <= 20})

\* _contains_external_reference
contains_external_reference(text, evidence_text) ==
    \E titles \in {TitlesFrom(text, 1)} :
        \E k \in 1..Len(titles) : ~HasSub(evidence_text, titles[k])

(***************************************************************************)
(* quizcraft/schemas.py.                                                   *)
(*                                                                         *)
(* A generator response ("raw") is a record                                *)
(*   [id, type, question, answer, rationale, citations, evidence_quotes,   *)
(*    concept_tags, tags_is_list, choices, correct_option, step_by_step,   *)
(*    has_final_answer, final_answer, insufficient_evidence]               *)
(* of texts, except: id is a string ("" when missing); a raw citation is   *)
(* [page, chunk_id, chunkId] with page a sequence of at most one integer   *)
(* (empty: a missing or non-numeric page), chunk_id the string under the   *)
(* key "chunk_id" ("" when the key is missing or its value is None or      *)
(* empty: the code only tests it for truth) and chunkId the string under   *)
(* the key "chunkId" (NoKey when the key is missing or its value is None); *)
(* a raw evidence quote adds the text quote; concept_tags is a sequence of *)
(* strings.  A Question is a record                                        *)
(*   [id, type, question, answer, rationale, citations, evidence_quotes,   *)
(*    concept_tags, choices, correct_option, step_by_step, final_answer]   *)
(* in which a key the dict does not hold is the empty value.               *)
(***************************************************************************)

T_tf == <<116, 102>>                    \* "tf"
T_mcq == <<109, 99, 113>>               \* "mcq"
T_short == <<115, 104, 111, 114, 116>>  \* "short"
T_calc == <<99, 97, 108, 99>>           \* "calc"
T_true == <<116, 114, 117, 101>>        \* "true"
T_false == <<102, 97, 108, 115, 101>>   \* "false"

\* the id of the dict {} : the key is absent
NoKey == "<absent>"

\* the dict {}
EmptyQuestion ==
    [id |-> NoKey, type |-> <<>>, question |-> <<>>, answer |-> <<>>,
     rationale |-> <<>>, citations |-> <<>>, evidence_quotes |-> <<>>,
     concept_tags |-> <<>>, choices |-> <<>>, correct_option |-> <<>>,
     step_by_step |-> <<>>, final_answer |-> <<>>]

\* item.get("chunk_id") or item.get("chunkId"), NoKey for None
cited_chunk_id(item) == IF item.chunk_id # "" THEN item.chunk_id ELSE item.chunkId

\* _normalize_citations
normalize_citations(raw) ==
    LET citations(ok) ==
            [i \in 1..Len(ok) |-> [page |-> ok[i].page[1],
                                   chunk_id |-> cited_chunk_id(ok[i])]]
    IN citations(SelectSeq(raw, LAMBDA c : c.page # <<>> /\ cited_chunk_id(c) # NoKey))

\* _normalize_evidence_quotes
normalize_evidence_quotes(raw) ==
    LET quotes(ok) ==
            [i \in 1..Len(ok) |-> [page |-> ok[i].page[1],
                                   chunk_id |-> cited_chunk_id(ok[i]),
                                   quote |-> Strip(ok[i].quote)]]
    IN quotes(SelectSeq(raw, LAMBDA c : c.page # <<>> /\ cited_chunk_id(c) # NoKey
                                         /\ Strip(c.quote) # <<>>))

\* the characters [\s\).U+3001:-] that may follow a choice letter
ChoiceSeparators == {41, 46, 12289, 58, 45}

\* _strip_choice_prefix: re.sub(r"^[A-Da-d][\s\).U+3001:-]+", "", text.strip()).strip()
strip_choice_prefix(text) ==
    LET isSep(c) == IsSpace(c) \/ c \in ChoiceSeparators
        seps(t) == {i \in 2..Len(t) : \A j \in 2..i : isSep(t[j])}
        stripped(t) == IF Len(t) >= 2 /\ t[1] \in (65..68) \cup (97..100) /\ isSep(t[2])
                       THEN Strip(SubSeq(t, Cardinality(seps(t)) + 2, Len(t)))
                       ELSE t
    IN stripped(Strip(text))

\* the letter of the idx-th choice (0-based): chr(ord("A") + idx)
ChoiceLetter(idx) == 65 + idx

\* _normalize_mcq_choices (every raw choice is a string)
normalize_mcq_choices(choices) ==
    [i \in 1..(IF Len(choices) < 4 THEN Len(choices) ELSE 4) |->
        Strip(<<ChoiceLetter(i - 1), 32>> \o strip_choice_prefix(Strip(choices[i])))]

\* the answers normalize_question reads as true and as false
TrueWords ==
    { <<116>>, T_true, <<121, 101, 115>>, <<121>>, <<23565>>,
      <<27491, 30830>>, <<27491, 30906>> }
FalseWords ==
    { <<102>>, T_false, <<110, 111>>, <<110>>, <<37679>>,
      <<38169, 35823>>, <<37679, 35492>> }

\* correct_option as normalize_question derives it for an mcq (empty: not set)
mcq_correct_option(raw, choices) ==
    LET hits(answer_text) ==
            {i \in 1..Len(choices) :
                 answer_text # <<>> /\ HasSub(Lower(choices[i]), Lower(answer_text))}
        by_text(hit) == IF hit # {} THEN <<ChoiceLetter(MinOf(hit) - 1)>> ELSE <<>>
        option(correct) ==
            IF correct # <<>> /\ correct[1] \in 65..68 THEN <<correct[1]>>
            ELSE by_text(hits(strip_choice_prefix(raw.answer)))
    IN option(Upper(Strip(IF raw.correct_option # <<>> THEN raw.correct_option
                                                        ELSE raw.answer)))

\* normalize_question
normalize_question(raw, fallback_id) ==
    LET known(lowered) == IF lowered \in {T_tf, T_mcq, T_short, T_calc} THEN lowered ELSE T_tf
        steps == SelectSeq([i \in 1..Len(raw.step_by_step) |-> Strip(raw.step_by_step[i])],
                           LAMBDA x : x # <<>>)
        \* the dict that is returned, for the values of the local variables
        \* q_type, answer, choices and correct_option
        question(q_type, answer, choices, correct) ==
            [id |-> IF raw.id # "" THEN raw.id ELSE fallback_id,
             type |-> q_type,
             question |-> Strip(raw.question),
             answer |-> CASE q_type = T_mcq /\ correct # <<>> -> correct
                          [] q_type = T_tf /\ Lower(answer) \in TrueWords -> T_true
                          [] q_type = T_tf /\ Lower(answer) \in FalseWords -> T_false
                          [] OTHER -> answer,
             rationale |-> Strip(raw.rationale),
             citations |-> normalize_citations(raw.citations),
             evidence_quotes |-> normalize_evidence_quotes(raw.evidence_quotes),
             concept_tags |-> IF raw.tags_is_list THEN raw.concept_tags ELSE <<>>,
             choices |-> choices,
             correct_option |-> correct,
             step_by_step |-> IF q_type = T_calc THEN steps ELSE <<>>,
             final_answer |-> IF q_type = T_calc
                              THEN Strip(IF raw.has_final_answer THEN raw.final_answer
                                                                 ELSE raw.answer)
                              ELSE <<>>]
        with_choices(q_type, choices) ==
            question(q_type, Strip(raw.answer), choices,
                     IF q_type = T_mcq THEN mcq_correct_option(raw, choices) ELSE <<>>)
        of_type(q_type) ==
            with_choices(q_type, IF q_type = T_mcq THEN normalize_mcq_choices(raw.choices)
                                                   ELSE <<>>)
    IN of_type(known(Lower(IF raw.type = <<>> THEN T_tf ELSE raw.type)))

(***************************************************************************)
(* quizcraft/retrieval.py.  An embedding is a sequence of integers, and    *)
(* _cosine_similarity computes with Python floats: IEEE-754 doubles, every *)
(* operation rounded to the nearest double, a tie to the even mantissa.    *)
(* A positive double is <<e, m>> with the mantissa m = <<hi, lo>>, the     *)
(* number hi * 2^28 + lo in 2^52 .. 2^53 - 1, and the value m * 2^e.  The  *)
(* mantissa is kept in two halves of 28 bits and a product in limbs of 14  *)
(* bits, so that no intermediate number needs more than 31 bits.           *)
(***************************************************************************)

RECURSIVE SumTo(_, _)
SumTo(f, n) == IF n = 0 THEN 0 ELSE f[n] + SumTo(f, n - 1)

Dot(a, b) == SumTo([i \in 1..Len(a) |-> a[i] * b[i]], Len(a))

\* 2^28, 2^14 and 2^24: the halves of a mantissa, the limbs of a product,
\* and the upper half of the mantissa 2^52
Half == 2^28
Limb == 2^14
TopBit == 2^24

\* the number hi * 2^28 + lo with its lower half below 2^28
Wide(hi, lo) == <<hi + lo \div Half, lo % Half>>

\* k * x + c
WideTimes(x, k, c) == Wide(k * x[1], k * x[2] + c)

\* x >= y
WideGeq(x, y) == x[1] > y[1] \/ (x[1] = y[1] /\ x[2] >= y[2])

\* x - y, for x >= y
WideMinus(x, y) == IF x[2] >= y[2] THEN <<x[1] - y[1], x[2] - y[2]>>
                   ELSE <<x[1] - y[1] - 1, x[2] - y[2] + Half>>

\* the double after the positive double <<e, m>>
NextUp(e, m) ==
    LET up(s) == IF s[1] >= 2 * TopBit THEN <<e + 1, <<TopBit, 0>>>> ELSE <<e, s>>
    IN up(Wide(m[1], m[2] + 1))

RECURSIVE isqrt(_)
\* the integer part of the square root of n
isqrt(n) ==
    IF n < 2 THEN n
    ELSE LET above(r) == IF r + 1 <= n \div (r + 1) THEN r + 1 ELSE r
         IN above(2 * isqrt(n \div 4))

\* one more bit of a square root: found is <<root, rest, e>> with root the
\* integer part of sqrt(n * 4^(-e)) and rest = n * 4^(-e) - root^2; a root of
\* 53 bits is complete
sqrt_bit(found) ==
    LET next(root, rest4, trial, e) ==
            IF WideGeq(rest4, trial)
            THEN <<WideTimes(root, 2, 1), WideMinus(rest4, trial), e - 1>>
            ELSE <<WideTimes(root, 2, 0), rest4, e - 1>>
    IN IF found[1][1] >= TopBit THEN found
       ELSE next(found[1], WideTimes(found[2], 4, 0), WideTimes(found[1], 4, 1), found[3])

RECURSIVE sqrt_bits(_)
\* the square root bit by bit, down to a root of 53 bits
sqrt_bits(found) ==
    IF found[1][1] >= TopBit THEN found
    ELSE sqrt_bits(sqrt_bit(sqrt_bit(sqrt_bit(sqrt_bit(found)))))

\* math.sqrt(n) for an integer n > 0: the double nearest to the square root,
\* which lies above root + 1/2 exactly when rest > root
float_sqrt(n) ==
    LET rounded(found) ==
            IF WideGeq(found[2], found[1]) /\ found[2] # found[1]
            THEN NextUp(found[3], found[1])
            ELSE <<found[3], found[1]>>
        from(r) == rounded(sqrt_bits(<<<<0, r>>, <<0, n - r * r>>, 0>>))
    IN from(isqrt(n))

\* the four limbs of 14 bits of a mantissa, the lowest first
limbs(m) == <<m[2] % Limb, m[2] \div Limb, m[1] % Limb, m[1] \div Limb>>

RECURSIVE carried(_, _, _)
\* the limbs of the number whose columns are cols, from column k on
carried(cols, k, carry) ==
    IF k > Len(cols) THEN <<carry>>
    ELSE <<(cols[k] + carry) % Limb>> \o carried(cols, k + 1, (cols[k] + carry) \div Limb)

\* the product of two mantissas: eight limbs of 14 bits, the lowest first
product(a, b) ==
    carried([k \in 1..7 |->
                SumTo([i \in 1..4 |-> IF k + 1 - i \in 1..4 THEN a[i] * b[k + 1 - i] ELSE 0], 4)],
            1, 0)

\* x * y for positive doubles: the product of the mantissas has 105 or 106
\* bits, of which the upper 53 are kept (the bits from 42 + r on) and the rest
\* rounds to nearest, a tie to the even mantissa
float_mul(x, y) ==
    LET kept(p, r) ==
            Wide(p[6] \div 2^r + p[7] * 2^(14 - r) + p[8] * 2^(28 - r),
                 p[4] \div 2^r + p[5] * 2^(14 - r) + (p[6] % 2^r) * 2^(28 - r))
        up(p, r, m) ==
            /\ (p[4] % 2^r) \div 2^(r - 1) = 1
            /\ \/ p[4] % 2^(r - 1) # 0
               \/ p[1] # 0 \/ p[2] # 0 \/ p[3] # 0
               \/ m[2] % 2 = 1
        rounded(p, r, e, m) == IF up(p, r, m) THEN NextUp(e, m) ELSE <<e, m>>
        cut(p, r) == rounded(p, r, x[1] + y[1] + 42 + r, kept(p, r))
        of(p) == cut(p, IF p[8] >= 2^7 THEN 11 ELSE 10)
    IN of(product(limbs(x[2]), limbs(y[2])))

\* one more bit of the quotient by m: found is <<q, rest, t>> with q the
\* integer part of d * 2^t / m and rest = d * 2^t - q * m; a quotient of 53
\* bits is complete
div_bit(found, m) ==
    LET next(q, rest2, t) ==
            IF WideGeq(rest2, m)
            THEN <<WideTimes(q, 2, 1), WideMinus(rest2, m), t + 1>>
            ELSE <<WideTimes(q, 2, 0), rest2, t + 1>>
    IN IF found[1][1] >= TopBit THEN found
       ELSE next(found[1], WideTimes(found[2], 2, 0), found[3])

RECURSIVE div_bits(_, _)
\* the quotient bit by bit, down to a quotient of 53 bits
div_bits(found, m) ==
    IF found[1][1] >= TopBit THEN found
    ELSE div_bits(div_bit(div_bit(div_bit(div_bit(found, m), m), m), m), m)

\* d / y for an integer d > 0 and a positive double y: the quotient rounds to
\* nearest, a tie to the even mantissa
float_div(d, y) ==
    LET up(q, rest2) == IF rest2 = y[2] THEN q[2] % 2 = 1 ELSE WideGeq(rest2, y[2])
        rounded(found) ==
            IF up(found[1], WideTimes(found[2], 2, 0))
            THEN NextUp(0 - found[3] - y[1], found[1])
            ELSE <<0 - found[3] - y[1], found[1]>>
    IN rounded(div_bits(<<<<0, 0>>, <<d \div 2^7, (d % 2^7) * 2^21>>, 21>>, y[2]))

\* the double 0.0
Zero == <<0, 0, <<0, 0>>>>

\* _cosine_similarity(a, b), a double: <<sign, e, m>> is sign * m * 2^e.  The
\* dot product and the sums of squares of integers are exact
cosine_similarity(a, b) ==
    LET similarity(d, aa, bb) ==
            IF aa = 0 \/ bb = 0 \/ d = 0 THEN Zero
            ELSE <<IF d > 0 THEN 1 ELSE -1>>
                 \o float_div(IF d > 0 THEN d ELSE 0 - d,
                              float_mul(float_sqrt(aa), float_sqrt(bb)))
    IN IF a = <<>> \/ b = <<>> \/ Len(a) # Len(b) THEN Zero
       ELSE similarity(Dot(a, b), Dot(a, a), Dot(b, b))

\* double x is greater than double y
SimGreater(x, y) ==
    LET above(p, q) == p[2] > q[2]
                       \/ (p[2] = q[2] /\ WideGeq(p[3], q[3]) /\ p[3] # q[3])
    IN IF x[1] # y[1] THEN x[1] > y[1]
       ELSE IF x[1] = 1 THEN above(x, y)
       ELSE IF x[1] = -1 THEN above(y, x)
       ELSE FALSE

\* search_index with chunks of equal similarity in reverse input order
search_index_ties_reversed(query_emb, chunks, embeddings, top_k) ==
    LET n == IF Len(chunks) < Len(embeddings) THEN Len(chunks) ELSE Len(embeddings)
        sorted(score) ==
            LET before(j, i) == SimGreater(score[j], score[i])
                                \/ (~SimGreater(score[i], score[j]) /\ j > i)
                rank(i) == 1 + Cardinality({j \in 1..n : before(j, i)})
            IN [r \in 1..(IF n < top_k THEN n ELSE top_k) |->
                   chunks[CHOOSE i \in 1..n : rank(i) = r]]
    IN sorted(SubSeq([i \in 1..n |-> cosine_similarity(query_emb, embeddings[i])], 1, n))

\* search_index, given the embedding of the query: the chunks by descending
\* similarity, equal similarities in input order (list.sort is stable), cut to top_k
search_index(query_emb, chunks, embeddings, top_k) ==
    LET n == IF Len(chunks) < Len(embeddings) THEN Len(chunks) ELSE Len(embeddings)
        sorted(score) ==
            LET before(j, i) == SimGreater(score[j], score[i])
                                \/ (~SimGreater(score[i], score[j]) /\ j < i)
                rank(i) == 1 + Cardinality({j \in 1..n : before(j, i)})
            IN [r \in 1..(IF n < top_k THEN n ELSE top_k) |->
                   chunks[CHOOSE i \in 1..n : rank(i) = r]]
    IN sorted(SubSeq([i \in 1..n |-> cosine_similarity(query_emb, embeddings[i])], 1, n))

(***************************************************************************)
(* quizcraft/pipeline.py: evidence, citations, quotes and the validation   *)
(* gate.                                                                   *)
(***************************************************************************)

\* the chunk of the list with this id, as the dict chunk_lookup gives it (the
\* last one wins); the empty sequence when there is none
LookupChunk(chunks, chunk_id) ==
    LET last(at) == IF at = {} THEN <<>>
                    ELSE <<chunks[CHOOSE i \in at : \A j \in at : j <= i]>>
    IN last({i \in 1..Len(chunks) : chunks[i].chunk_id = chunk_id})

\* _filter_low_info_chunks
filter_low_info_chunks(chunks) == SelectSeq(chunks, LAMBDA c : ~is_low_info_chunk(c))

RECURSIVE ConcatAll(_)
ConcatAll(ss) == IF ss = <<>> THEN <<>> ELSE ss[1] \o ConcatAll(Tail(ss))

\* _collect_evidence_by_citations
collect_evidence_by_citations(citations, all_chunks, fallback) ==
    LET or_fallback(found) == IF found = <<>> THEN fallback ELSE found
    IN or_fallback(ConcatAll([i \in 1..Len(citations) |->
                                 IF citations[i].chunk_id # ""
                                 THEN LookupChunk(all_chunks, citations[i].chunk_id)
                                 ELSE <<>>]))

\* the first occurrence of every chunk id, in order
UniqueById(chunks) ==
    LET taken(keep) == [k \in 1..Len(keep) |-> chunks[keep[k]]]
    IN taken(SelectSeq([i \in 1..Len(chunks) |-> i],
                       LAMBDA i : \A j \in 1..(i - 1) :
                                      chunks[j].chunk_id # chunks[i].chunk_id))

\* _select_evidence_chunks with the search results appended to the cited
\* chunks instead of replacing them
select_evidence_chunks_merged(concept, chunks, embeddings, query_emb) ==
    Prefix(UniqueById(filter_low_info_chunks(
                          ConcatAll([i \in 1..Len(concept.citations) |->
                                        LookupChunk(chunks, concept.citations[i].chunk_id)])
                          \o search_index(query_emb, chunks, embeddings, 8))), 6)

\* _select_evidence_chunks, given the embedding of the concept name
select_evidence_chunks(concept, chunks, embeddings, query_emb) ==
    LET unique(evidence) == Prefix(UniqueById(evidence), 6)
        or_first(evidence) ==
            unique(IF evidence = <<>> THEN Prefix(filter_low_info_chunks(chunks), 3)
                                      ELSE evidence)
        or_fallback(cited, fallback) ==
            or_first(IF cited = <<>> THEN filter_low_info_chunks(fallback) ELSE cited)
        with(fallback) ==
            or_fallback(filter_low_info_chunks(
                            collect_evidence_by_citations(concept.citations, chunks, fallback)),
                        fallback)
    IN with(search_index(query_emb, chunks, embeddings, 8))

\* the evidence of one verify attempt (verify_questions, lines 1188-1205),
\* given the embedding of the question text
verify_evidence_chunks(current, chunks, embeddings, query_emb) ==
    LET or_first(evidence) ==
            IF evidence = <<>> THEN Prefix(filter_low_info_chunks(chunks), 3) ELSE evidence
        or_fallback(cited, fallback) == or_first(IF cited = <<>> THEN fallback ELSE cited)
        with(fallback) ==
            or_fallback(filter_low_info_chunks(
                            collect_evidence_by_citations(current.citations, chunks, fallback)),
                        fallback)
    IN with(filter_low_info_chunks(search_index(query_emb, chunks, embeddings, 5)))

\* the citations of the response, left as they are
keep_citations(question, evidence_chunks) == question.citations

\* _ensure_citations: the value it gives question["citations"]
ensure_citations(question, evidence_chunks) ==
    LET or_first(kept) ==
            IF kept = <<>> /\ evidence_chunks # <<>>
            THEN <<[page |-> evidence_chunks[1].page,
                    chunk_id |-> evidence_chunks[1].chunk_id]>>
            ELSE kept
    IN or_first(SelectSeq(question.citations,
                          LAMBDA c : \E i \in 1..Len(evidence_chunks) :
                                         evidence_chunks[i].chunk_id = c.chunk_id))

\* _ensure_evidence_quotes: the value it gives question["evidence_quotes"]
ensure_evidence_quotes(question, evidence_chunks) ==
    LET citations == question.citations
        \* where chunk_lookup has the chunk of this id: the last one of the list
        lookup(chunk_id) ==
            {i \in 1..Len(evidence_chunks) :
                 /\ evidence_chunks[i].chunk_id = chunk_id
                 /\ \A j \in (i + 1)..Len(evidence_chunks) :
                        evidence_chunks[j].chunk_id # chunk_id}
        \* quote[i] is _extract_quote_from_chunk(evidence_chunks[i])
        record(i, quote) ==
            <<[page |-> evidence_chunks[i].page, chunk_id |-> evidence_chunks[i].chunk_id,
               quote |-> quote[i]]>>
        first(cited, any, quote) ==
            IF cited # {} THEN record(CHOOSE i \in lookup(citations[MinOf(cited)].chunk_id) : TRUE,
                                      quote)
            ELSE IF any # {} THEN record(MinOf(any), quote)
            ELSE <<>>
        quotes(quote) ==
            first({k \in 1..Len(citations) :
                       \E i \in lookup(citations[k].chunk_id) : quote[i] # <<>>},
                  {i \in 1..Len(evidence_chunks) : quote[i] # <<>>},
                  quote)
    IN quotes([i \in 1..Len(evidence_chunks) |-> extract_quote_from_chunk(evidence_chunks[i])])

\* the brackets of the appended quote: U+FF08 U+539F U+6587 U+FF1A ... U+FF09
QuoteOpen == <<65288, 21407, 25991, 65306>>
QuoteClose == <<65289>>

\* the rationale of the response, left as it is
keep_rationale(question) == question.rationale

\* _ensure_rationale_quotes: the value it leaves in question["rationale"]
ensure_rationale_quotes(question) ==
    LET quotes == question.evidence_quotes
    IN IF \E i \in 1..Len(quotes) :
              quotes[i].quote # <<>> /\ HasSub(question.rationale, quotes[i].quote)
       THEN question.rationale
       ELSE IF quotes # <<>>
       THEN Strip(question.rationale \o QuoteOpen \o quotes[1].quote \o QuoteClose)
       ELSE question.rationale

\* the three _ensure_* calls in the order of lines 1162-1164 and 1270-1272
ensure_all(question, evidence_chunks) ==
    LET with_rationale(q) == [q EXCEPT !.rationale = ensure_rationale_quotes(q)]
        with_quotes(q) ==
            with_rationale([q EXCEPT !.evidence_quotes =
                                         ensure_evidence_quotes(q, evidence_chunks)])
    IN with_quotes([question EXCEPT !.citations = ensure_citations(question, evidence_chunks)])

\* one evidence quote passes the checks of _validate_question
quote_ok(quote) ==
    LET ok(text) == /\ Len(text) >= 20 /\ Len(text) <= 80
                    /\ ~allowed_char_ratio_below(text, 7, 10)
                    /\ ~is_noisy_line(text)
    IN ok(Strip(quote.quote))

\* _validate_question, lines 633-635: the type is one of settings.question_types
validate_type(question, types) ==
    \E i \in 1..Len(types) : Lower(types[i]) = Lower(question.type)

\* _validate_question, lines 636-637: question, answer and rationale are not empty
validate_fields(question) ==
    question.question # <<>> /\ question.answer # <<>> /\ question.rationale # <<>>

\* _validate_question, lines 640-651: a citation, a quote, and every quote passes
validate_grounding(question) ==
    /\ question.citations # <<>>
    /\ question.evidence_quotes # <<>>
    /\ \A i \in 1..Len(question.evidence_quotes) : quote_ok(question.evidence_quotes[i])

\* _validate_question, lines 652-667: the checks on an mcq
validate_mcq(question) ==
    LET checks(correct) ==
            /\ Len(question.choices) = 4
            /\ ~has_banned_mcq_choice(question.choices)
            /\ \A i \in 1..4 : StartsWith(question.choices[i], <<ChoiceLetter(i - 1), 32>>)
            /\ correct \in {<<65>>, <<66>>, <<67>>, <<68>>}
            /\ Upper(question.answer) = correct
    IN checks(Upper(IF question.correct_option # <<>> THEN question.correct_option
                                                       ELSE question.answer))

\* _validate_question, lines 668-672: the checks on a tf
validate_tf(question) ==
    /\ question.answer \in {T_true, T_false}
    /\ ~is_question_sentence(question.question)

\* _validate_question, lines 673-681: the checks on a short and on a calc
validate_short(question) == Lower(question.answer) \notin {T_true, T_false}
validate_calc(question) == question.step_by_step # <<>> /\ question.final_answer # <<>>

\* the checks of _validate_question that depend on the type
validate_typed(question, q_type) ==
    /\ q_type = T_mcq => validate_mcq(question)
    /\ q_type = T_tf => validate_tf(question)
    /\ q_type = T_short => validate_short(question)
    /\ q_type = T_calc => validate_calc(question)

\* a gate that checks the type only
validate_type_only(question, types) == validate_type(question, types)

\* a gate without the meta-question check of lines 638-639
validate_without_meta(question, types) ==
    /\ validate_type(question, types)
    /\ validate_fields(question)
    /\ validate_grounding(question)
    /\ validate_typed(question, Lower(question.type))

\* a gate without the checks on an mcq
validate_without_mcq(question, types) ==
    /\ validate_type(question, types)
    /\ validate_fields(question)
    /\ ~is_meta_question(question.question)
    /\ validate_grounding(question)
    /\ Lower(question.type) # T_mcq => validate_typed(question, Lower(question.type))

\* a gate without the checks on a tf
validate_without_tf(question, types) ==
    /\ validate_type(question, types)
    /\ validate_fields(question)
    /\ ~is_meta_question(question.question)
    /\ validate_grounding(question)
    /\ Lower(question.type) # T_tf => validate_typed(question, Lower(question.type))

\* _validate_question(question, settings) with settings.question_types = types
validate_question(question, types) ==
    /\ validate_type(question, types)
    /\ validate_fields(question)
    /\ ~is_meta_question(question.question)
    /\ validate_grounding(question)
    /\ validate_typed(question, Lower(question.type))

(***************************************************************************)
(* quizcraft/pipeline.py: the loops of generate_question_for_concept and   *)
(* verify_questions, one iteration at a time.  The object a chat_json call *)
(* answers is the input of the iteration; an exception of the call leaves  *)
(* data = {} (lines 1130-1132 and 1220-1222).  settings is the record of   *)
(* the fields of Settings that these functions read.                       *)
(***************************************************************************)

\* the JSON object {} as normalize_question reads it
EmptyRaw ==
    [id |-> "", type |-> <<>>, question |-> <<>>, answer |-> <<>>, rationale |-> <<>>,
     citations |-> <<>>, evidence_quotes |-> <<>>, concept_tags |-> <<>>,
     tags_is_list |-> FALSE, choices |-> <<>>, correct_option |-> <<>>,
     step_by_step |-> <<>>, has_final_answer |-> FALSE, final_answer |-> <<>>,
     insufficient_evidence |-> FALSE]

\* question.get("id", default)
GetId(question, default) == IF question.id = NoKey THEN default ELSE question.id

\* one iteration of the while loop of generate_question_for_concept: the value
\* of question after it, and whether the function returned it.  data is
\* [is_object, obj]: what chat_json answered, and whether it is a JSON object
generate_attempt(settings, question, data, concept, evidence_chunks, question_id, question_type) ==
    LET ensured(q) ==
            [question |-> q, returned |-> validate_question(q, settings.question_types)]
        checked(q, unfixable) ==
            IF \/ unfixable
               \/ question_type = T_short /\ Lower(q.answer) \in {T_true, T_false}
               \/ question_type = T_mcq /\ has_banned_mcq_choice(q.choices)
               \/ is_meta_question(q.question)
            THEN [question |-> q, returned |-> FALSE]
            ELSE ensured(ensure_all(q, evidence_chunks))
        fix_tf(q, fixed) ==
            checked(IF fixed # <<>> THEN [q EXCEPT !.question = fixed] ELSE q,
                    question_type = T_tf /\ fixed = <<>>)
        tagged(q) ==
            fix_tf(q, IF question_type = T_tf THEN fix_tf_question(q.question) ELSE <<>>)
        normalized(q) ==
            tagged([q EXCEPT !.id = question_id,
                             !.type = question_type,
                             !.evidence_quotes = <<>>,
                             !.concept_tags = IF @ = <<>> THEN <<concept.name>> ELSE @])
    IN IF data.is_object /\ data.obj.insufficient_evidence
       THEN [question |-> question, returned |-> FALSE]
       ELSE normalized(normalize_question(IF data.is_object THEN data.obj ELSE EmptyRaw,
                                          question_id))

\* the verdict of a verify attempt without the check of titles
verify_supported_any_title(current, answered, evidence_chunks, chunks) ==
    /\ answered
    /\ current.citations # <<>>
    /\ ~is_meta_question(current.question)
    /\ ~(current.type = T_tf /\ is_question_sentence(current.question))
    /\ ~(current.type = T_short /\ Lower(current.answer) \in {T_true, T_false})
    /\ ~(current.type = T_mcq /\ has_banned_mcq_choice(current.choices))
    /\ \A i \in 1..Len(current.evidence_quotes) :
          \E chunk \in {LookupChunk(chunks, current.evidence_quotes[i].chunk_id)} :
             chunk # <<>> /\ HasSub(chunk[1].text, current.evidence_quotes[i].quote)

\* the verdict of one verify attempt (lines 1226-1247): what the verifier
\* answered, lowered by the checks of the code
verify_supported(current, answered, evidence_chunks, chunks) ==
    /\ answered
    /\ current.citations # <<>>
    /\ ~is_meta_question(current.question)
    /\ ~(current.type = T_tf /\ is_question_sentence(current.question))
    /\ ~(current.type = T_short /\ Lower(current.answer) \in {T_true, T_false})
    /\ ~(current.type = T_mcq /\ has_banned_mcq_choice(current.choices))
    /\ ~contains_external_reference(
            current.question \o <<32>> \o current.answer \o <<32>> \o current.rationale,
            JoinWith([i \in 1..Len(evidence_chunks) |-> evidence_chunks[i].text], <<10>>))
    /\ \A i \in 1..Len(current.evidence_quotes) :
          \E chunk \in {LookupChunk(chunks, current.evidence_quotes[i].chunk_id)} :
             chunk # <<>> /\ HasSub(chunk[1].text, current.evidence_quotes[i].quote)

\* one iteration of the while loop of verify_questions (lines 1187-1275), for
\* data = [is_object, supported, revised] a JSON object whose revised_question
\* is revised[1], or no object when revised is empty: current after it, the
\* verdict, whether a rewrite replaced current, whether the loop was left by
\* break, and the number added to attempts
verify_attempt(settings, current, data, evidence_chunks, chunks) ==
    LET result(c, rewritten, break) ==
            [current |-> c, supported |-> FALSE, rewritten |-> rewritten,
             break |-> break, added |-> IF break THEN 0 ELSE 1]
        ensured(c) == result(c, TRUE, validate_question(c, settings.question_types))
        checked(c, unfixable) ==
            IF \/ unfixable
               \/ c.type = T_short /\ Lower(c.answer) \in {T_true, T_false}
               \/ c.type = T_mcq /\ has_banned_mcq_choice(c.choices)
            THEN result(c, TRUE, FALSE)
            ELSE ensured(ensure_all(c, evidence_chunks))
        fix_tf(c, fixed) ==
            checked(IF fixed # <<>> THEN [c EXCEPT !.question = fixed] ELSE c,
                    c.type = T_tf /\ fixed = <<>>)
        normalized(c) ==
            fix_tf(c, IF c.type = T_tf THEN fix_tf_question(c.question) ELSE <<>>)
    IN IF verify_supported(current, data.supported, evidence_chunks, chunks)
       THEN [current |-> current, supported |-> TRUE, rewritten |-> FALSE,
             break |-> TRUE, added |-> 0]
       ELSE IF data.revised = <<>>
       THEN result(current, FALSE, FALSE)
       ELSE normalized([normalize_question(data.revised[1], GetId(current, ""))
                            EXCEPT !.evidence_quotes = <<>>])

\* the concept verify_questions regenerates from (lines 1278-1279): the name
\* current.get("concept_tags", [""])[0] looked up in concept_lookup, in which
\* the last concept of a name wins.  Empty when there is none
regeneration_concept(current, concepts) ==
    LET last(at) == IF at = {} THEN <<>>
                    ELSE <<concepts[CHOOSE i \in at : \A j \in at : j <= i]>>
        named(concept_name) == last({i \in 1..Len(concepts) : concepts[i].name = concept_name})
    IN named(IF current.id = NoKey THEN "" ELSE current.concept_tags[1])

\* the list [0] of line 1278 is empty: the key concept_tags is present (every
\* question but {} has it) and holds no tag
no_concept_tag(current) == current.id # NoKey /\ current.concept_tags = <<>>

(***************************************************************************)
(* The inputs of the runs that are explored: the chunks of a PDF, the      *)
(* concepts extract_concepts found, the embeddings and the answers of the  *)
(* chat backend.                                                           *)
(***************************************************************************)

\* "Agents sense the environment and then act on it"
TextSense ==
    <<65, 103, 101, 110, 116, 115, 32, 115, 101, 110, 115, 101, 32, 116,
      104, 101, 32, 101, 110, 118, 105, 114, 111, 110, 109, 101, 110, 116,
      32, 97, 110, 100, 32, 116, 104, 101, 110, 32, 97, 99, 116, 32, 111,
      110, 32, 105, 116>>
\* "agents plan ahead\nthen they act on\nwhat they sensed"
TextPlan ==
    <<97, 103, 101, 110, 116, 115, 32, 112, 108, 97, 110, 32, 97, 104, 101,
      97, 100, 10, 116, 104, 101, 110, 32, 116, 104, 101, 121, 32, 97, 99,
      116, 32, 111, 110, 10, 119, 104, 97, 116, 32, 116, 104, 101, 121, 32,
      115, 101, 110, 115, 101, 100>>
\* "12\n----\nnote"
TextNoise ==
    <<49, 50, 10, 45, 45, 45, 45, 10, 110, 111, 116, 101>>
\* "Agents act"
Statement ==
    <<65, 103, 101, 110, 116, 115, 32, 97, 99, 116>>
\* "Agents act?"
Asking ==
    <<65, 103, 101, 110, 116, 115, 32, 97, 99, 116, 63>>
\* "U+5982U+4F55 act"
AskingHow ==
    <<22914, 20309, 32, 97, 99, 116>>
\* "page of agents"
AskingPage ==
    <<112, 97, 103, 101, 32, 111, 102, 32, 97, 103, 101, 110, 116, 115>>
\* "Agents act U+300AActsU+300B"
WithTitle ==
    <<65, 103, 101, 110, 116, 115, 32, 97, 99, 116, 32, 12298, 65, 99, 116,
      115, 12299>>
\* "Stated"
Because ==
    <<83, 116, 97, 116, 101, 100>>
\* "sense"
ChoiceSense ==
    <<115, 101, 110, 115, 101>>
\* "B. plan"
ChoicePlan ==
    <<66, 46, 32, 112, 108, 97, 110>>
\* "c) act"
ChoiceAct ==
    <<99, 41, 32, 97, 99, 116>>
\* "learn"
ChoiceLearn ==
    <<108, 101, 97, 114, 110>>
\* "All of the above"
ChoiceAll ==
    <<65, 108, 108, 32, 111, 102, 32, 116, 104, 101, 32, 97, 98, 111, 118,
      101>>

\* chunks as chunk_pages makes them: one clean line, three short lines, and
\* a chunk of page furniture
ChunkSense == [chunk_id |-> "p1_c1", page |-> 1, section_title |-> <<>>, text |-> TextSense]
ChunkPlan == [chunk_id |-> "p2_c1", page |-> 2, section_title |-> <<>>, text |-> TextPlan]
ChunkNoise == [chunk_id |-> "p3_c1", page |-> 3, section_title |-> <<>>, text |-> TextNoise]

\* the embedding client.embed answers for a chunk
ChunkEmbedding(chunk) ==
    CASE chunk.chunk_id = "p1_c1" -> <<1, 0>>
      [] chunk.chunk_id = "p2_c1" -> <<0, 1>>
      [] OTHER -> <<1, 1>>

\* what client.embed answers for a query: an embedding, or it raises
EmbedFails == <<"raises">>
QueryEmbeddings == { <<2, 1>>, <<1, 2>> }
EmbedAnswers == QueryEmbeddings \cup {EmbedFails}

\* concepts: one citing each chunk, one citing nothing
ConceptAgent == [name |-> "agent", citations |-> <<[page |-> 1, chunk_id |-> "p1_c1"]>>]
ConceptPlan == [name |-> "plan", citations |-> <<[page |-> 2, chunk_id |-> "p2_c1"]>>]
ConceptLoose == [name |-> "loose", citations |-> <<>>]

\* JSON objects the chat model answers to QUESTION_PROMPT, and as
\* revised_question to VERIFY_PROMPT
CitesSense == <<[page |-> <<1>>, chunk_id |-> "p1_c1", chunkId |-> NoKey]>>
GoodTf ==
    [EmptyRaw EXCEPT !.type = T_tf, !.question = Statement, !.answer = T_true,
                     !.rationale = Because, !.citations = CitesSense]
AskingTf == [GoodTf EXCEPT !.question = Asking]
AskingHowTf == [GoodTf EXCEPT !.question = AskingHow]
MetaTf == [GoodTf EXCEPT !.question = AskingPage]
TitleTf == [GoodTf EXCEPT !.question = WithTitle]
GoodMcq ==
    [GoodTf EXCEPT !.type = T_mcq, !.answer = <<66>>, !.correct_option = <<66>>,
                   !.choices = <<ChoiceSense, ChoicePlan, ChoiceAct, ChoiceLearn>>]
BannedMcq ==
    [GoodTf EXCEPT !.type = T_mcq,
                   !.choices = <<ChoiceSense, ChoicePlan, ChoiceAct, ChoiceAll>>]
Insufficient == [EmptyRaw EXCEPT !.insufficient_evidence = TRUE]
\* a revised question with another id, type and concept, and no choices
Moved ==
    [GoodTf EXCEPT !.id = "q9", !.type = T_mcq, !.concept_tags = <<"plan">>,
                   !.tags_is_list = TRUE]

\* what chat_json answers in generate_question_for_concept; {} is also what an
\* exception of the call leaves
QuestionObjects ==
    { GoodTf, AskingTf, AskingHowTf, MetaTf, TitleTf, GoodMcq, BannedMcq, Insufficient,
      EmptyRaw }
GenerateAnswers ==
    [is_object : {TRUE}, obj : QuestionObjects] \cup {[is_object |-> FALSE, obj |-> EmptyRaw]}

\* what chat_json answers in verify_questions: an object with supported and
\* revised_question (null here when revised is empty), or a JSON value that is
\* no object; {} is also what an exception of the call leaves
RevisedObjects == { GoodTf, AskingHowTf, MetaTf, BannedMcq, Moved }
VerifyAnswers ==
    [is_object : {TRUE}, supported : {FALSE}, revised : {<<>>} \cup {<<r>> : r \in RevisedObjects}]
    \cup {[is_object |-> TRUE, supported |-> TRUE, revised |-> <<>>],
          [is_object |-> FALSE, supported |-> FALSE, revised |-> <<>>]}

(***************************************************************************)
(* quizcraft/pipeline.py: the summary block.  Sentences, paragraphs and    *)
(* keypoints.                                                              *)
(***************************************************************************)

\* the elements of a sequence of one-element and empty sequences
Present(opts) ==
    [i \in 1..Len(SelectSeq(opts, LAMBDA x : x # <<>>)) |->
        SelectSeq(opts, LAMBDA x : x # <<>>)[i][1]]

\* the first occurrences of the elements of a sequence, in order
Distinct(seq) ==
    Present([i \in 1..Len(seq) |-> IF \E j \in 1..(i - 1) : seq[j] = seq[i]
                                   THEN <<>> ELSE <<seq[i]>>])

\* where _split_sentences cuts: "\n", ";", U+FF1B, U+3002, U+FF01, U+FF1F
SentenceEnds == {10, 59, 65307, 12290, 65281, 65311}

\* _split_sentences
split_sentences(text) ==
    LET part(brk, k) ==
            Strip(SubSeq(text, IF k = 1 THEN 1 ELSE brk[k - 1] + 1,
                               IF k > Len(brk) THEN Len(text) ELSE brk[k] - 1))
        parts(brk) == [k \in 1..(Len(brk) + 1) |-> part(brk, k)]
    IN SelectSeq(parts(SelectSeq([i \in 1..Len(text) |-> i],
                                 LAMBDA i : text[i] \in SentenceEnds)),
                 LAMBDA p : p # <<>>)

\* _INCOMPLETE_SUFFIXES
IncompleteSuffixes ==
    <<
       <<20006>>,
       <<20197, 21450>>,
       <<32780, 19988>>,
       <<19988>>,
       <<20006, 19988>>,
       <<24341, 36914>>,
       <<25512, 34892>>,
       <<21253, 21547>>,
       <<21253, 25324>>,
       <<20363, 22914>>,
       <<22914>>,
       <<31561>>,
       <<31561, 31561>>,
       <<20006, 24341, 36914>>,
       <<20006, 23559>> >>

\* the endings of line 226: ( U+FF08 U+FF1A U+FF0C U+3001 U+FF1B - U+2014 U+2026
IncompleteEndings == << <<40>>, <<65288>>, <<65306>>, <<65292>>, <<12289>>, <<65307>>, <<45>>, <<8212>>, <<8230>> >>

\* str.count of one character
CountChar(s, c) == Cardinality({i \in 1..Len(s) : s[i] = c})

\* _is_incomplete_sentence
is_incomplete_sentence(sentence) ==
    LET incomplete(s) ==
            \/ s = <<>>
            \/ \E k \in 1..Len(IncompleteSuffixes) : EndsWith(s, IncompleteSuffixes[k])
            \/ \E k \in 1..Len(IncompleteEndings) : EndsWith(s, IncompleteEndings[k])
            \/ CountChar(s, 65288) > CountChar(s, 65289)
            \/ CountChar(s, 40) > CountChar(s, 41)
    IN incomplete(Strip(sentence))

RECURSIVE extend_sentences(_, _, _)
\* the loop of lines 239-247: sentences of fallback are added until there
\* are min_sentences
extend_sentences(sentences, fallback, min_sentences) ==
    LET with(extra) ==
            IF extra = <<>> \/ is_incomplete_sentence(extra)
               \/ \E j \in 1..Len(sentences) : sentences[j] = extra
            THEN sentences ELSE Append(sentences, extra)
    IN IF fallback = <<>> \/ Len(sentences) >= min_sentences THEN sentences
       ELSE extend_sentences(with(Strip(Head(fallback))), Tail(fallback), min_sentences)

\* _normalize_paragraph; the sentences are joined and closed with U+3002
normalize_paragraph(text, min_sentences, max_sentences, fallback) ==
    LET joined(sentences) ==
            IF sentences = <<>> THEN <<>> ELSE JoinWith(sentences, <<12290>>) \o <<12290>>
        cut(sentences) ==
            joined(IF Len(sentences) > max_sentences THEN SubSeq(sentences, 1, max_sentences)
                                                     ELSE sentences)
    IN cut(extend_sentences(SelectSeq(split_sentences(text),
                                      LAMBDA s : ~is_incomplete_sentence(s)),
                            fallback, min_sentences))

\* _sentences_from_mini_summaries
sentences_from_mini_summaries(mini_summaries) ==
    Distinct(ConcatAll([i \in 1..Len(mini_summaries) |->
                           SelectSeq(split_sentences(mini_summaries[i].mini_summary),
                                     LAMBDA s : ~is_incomplete_sentence(s))]))

RECURSIVE DigitsEnd(_, _)
\* the offset after the digits of s that begin after offset i
DigitsEnd(s, i) == IF i < Len(s) /\ IsDigit(s[i + 1]) THEN DigitsEnd(s, i + 1) ELSE i

\* the offset after a match of p\d+_c\d+ that begins after offset i, or -1
ChunkIdEnd(s, i) ==
    LET second(j) == IF DigitsEnd(s, j) > j THEN DigitsEnd(s, j) ELSE -1
        first(j) == IF j > i + 1 /\ MatchAt(s, <<95, 99>>, j) THEN second(j + 2) ELSE -1
    IN IF MatchAt(s, <<112>>, i) THEN first(DigitsEnd(s, i + 1)) ELSE -1

\* the offset after a match of \(\s*\) that begins after offset i, or -1
EmptyParensEnd(s, i) ==
    LET close(j) == IF j <= Len(s) /\ s[j] = 41 THEN j ELSE -1
    IN IF MatchAt(s, <<40>>, i) THEN close(LStripIdx(s, i + 2)) ELSE -1

RECURSIVE RemoveChunkIds(_, _)
\* re.sub(r"p\d+_c\d+", "", s) from offset i on
RemoveChunkIds(s, i) ==
    IF i >= Len(s) THEN <<>>
    ELSE IF ChunkIdEnd(s, i) > i THEN RemoveChunkIds(s, ChunkIdEnd(s, i))
    ELSE <<s[i + 1]>> \o RemoveChunkIds(s, i + 1)

RECURSIVE RemoveEmptyParens(_, _)
\* re.sub(r"\(\s*\)", "", s) from offset i on
RemoveEmptyParens(s, i) ==
    IF i >= Len(s) THEN <<>>
    ELSE IF EmptyParensEnd(s, i) > i THEN RemoveEmptyParens(s, EmptyParensEnd(s, i))
    ELSE <<s[i + 1]>> \o RemoveEmptyParens(s, i + 1)

\* lines 269-271: a keypoint without chunk ids, empty parentheses and the
\* closing characters U+3002, U+FF1B, ";" and " "
clean_keypoint(kp) ==
    RStripChars(Strip(RemoveEmptyParens(Strip(RemoveChunkIds(kp, 0)), 0)),
                {12290, 65307, 59, 32})

RECURSIVE add_keypoints(_, _, _)
\* the candidates that are complete and new are added to cleaned until it
\* has limit elements (no limit when limit is 0)
add_keypoints(cleaned, candidates, limit) ==
    LET with(kp) ==
            IF kp = <<>> \/ is_incomplete_sentence(kp)
               \/ \E j \in 1..Len(cleaned) : cleaned[j] = kp
            THEN cleaned ELSE Append(cleaned, kp)
    IN IF candidates = <<>> \/ (limit > 0 /\ Len(cleaned) >= limit) THEN cleaned
       ELSE add_keypoints(with(Head(candidates)), Tail(candidates), limit)

\* _normalize_keypoints
normalize_keypoints(raw_keypoints, fallback_sentences) ==
    LET cut(cleaned) == IF Len(cleaned) > 8 THEN SubSeq(cleaned, 1, 8) ELSE cleaned
        filled(cleaned) ==
            IF Len(cleaned) < 5
            THEN add_keypoints(cleaned,
                               [i \in 1..Len(fallback_sentences) |->
                                   RStripChars(Strip(fallback_sentences[i]), {12290})],
                               5)
            ELSE cleaned
    IN cut(filled(add_keypoints(<<>>, [i \in 1..Len(raw_keypoints) |->
                                          clean_keypoint(raw_keypoints[i])], 0)))

(***************************************************************************)
(* quizcraft/pipeline.py: the citations and the sections of the summary    *)
(* block.  embeds is what client.embed answers, call after call: the n-th  *)
(* call of a run gets embeds[n], the answers repeating after the last; an  *)
(* operator that calls client.embed takes the number of calls made before  *)
(* it (used) and gives its result as out, with the calls made after it and *)
(* whether a call raised.                                                  *)
(***************************************************************************)

\* what the n-th call of client.embed answers
Embed(embeds, n) == embeds[((n - 1) % Len(embeds)) + 1]

\* the result out of an operator after used calls of client.embed
Returned(out, used) == [out |-> out, used |-> used, raised |-> FALSE]
\* a call of client.embed raised
Raised(used) == [out |-> <<>>, used |-> used, raised |-> TRUE]

RECURSIVE IntText(_)
\* str(n) for an int n >= 0
IntText(n) == IF n < 10 THEN <<48 + n>> ELSE IntText(n \div 10) \o <<48 + (n % 10)>>

RECURSIVE SortedSeq(_)
\* sorted(S) for a set of ints
SortedSeq(S) == IF S = {} THEN <<>> ELSE <<MinOf(S)>> \o SortedSeq(S \ {MinOf(S)})

\* {chunk["page"] for chunk in selected_chunks}
PagesOf(selected_chunks) == {selected_chunks[i].page : i \in 1..Len(selected_chunks)}

\* mini_by_chunk_id.get(chunk_id): the last mini summary of the chunk, or none
LookupMini(mini_summaries, chunk_id) ==
    LET last(at) == IF at = {} THEN <<>>
                    ELSE <<mini_summaries[CHOOSE i \in at : \A j \in at : j <= i]>>
    IN last({i \in 1..Len(mini_summaries) : mini_summaries[i].chunk_id = chunk_id})

\* lines 355-358 and 478-482: the sentences of the mini summaries of chunks
mini_sentences(group, mini_summaries) ==
    LET of(ms) == IF ms = <<>> THEN <<>> ELSE split_sentences(ms[1].mini_summary)
    IN ConcatAll([i \in 1..Len(group) |-> of(LookupMini(mini_summaries, group[i].chunk_id))])

\* the first max_count elements of items that have a page no earlier one has
\* (lines 367-374 and 311-316)
first_of_pages(items, max_count) ==
    LET cut(firsts) == IF Len(firsts) > max_count THEN SubSeq(firsts, 1, max_count)
                                                  ELSE firsts
    IN cut(Present([i \in 1..Len(items) |->
                       IF \E j \in 1..(i - 1) : items[j].page = items[i].page
                       THEN <<>> ELSE <<[page |-> items[i].page,
                                         chunk_id |-> items[i].chunk_id]>>]))

RECURSIVE add_citations(_, _, _)
\* lines 317-324: citations of further matches until there are min_count
add_citations(citations, matches, min_count) ==
    LET with(citation) ==
            IF \E j \in 1..Len(citations) : citations[j] = citation
            THEN citations ELSE Append(citations, citation)
    IN IF matches = <<>> \/ Len(citations) >= min_count THEN citations
       ELSE add_citations(with([page |-> Head(matches).page,
                                chunk_id |-> Head(matches).chunk_id]),
                          Tail(matches), min_count)

\* _citations_for_text with min_count = 2 and max_count = 4
citations_for_text(query, chunks, embeddings, embeds, used) ==
    LET cut(citations) == IF Len(citations) > 4 THEN SubSeq(citations, 1, 4) ELSE citations
        of(matches) == cut(add_citations(first_of_pages(matches, 4), matches, 2))
    IN IF query = <<>> THEN Returned(<<>>, used)
       ELSE IF Embed(embeds, used + 1) = EmbedFails THEN Raised(used + 1)
       ELSE Returned(of(filter_low_info_chunks(
                            search_index(Embed(embeds, used + 1), chunks, embeddings, 8))),
                     used + 1)

\* pipeline.py _normalize_citations
normalize_section_citations(raw) ==
    LET citations(ok) ==
            [i \in 1..Len(ok) |-> [page |-> ok[i].page[1],
                                   chunk_id |-> cited_chunk_id(ok[i])]]
    IN citations(SelectSeq(raw, LAMBDA c : c.page # <<>> /\ cited_chunk_id(c) # NoKey))

\* lines 375-379: the title of a section whose raw title is empty: U+7B2C n
\* U+9801 U+4E3B U+984C for page n, or U+7AE0 U+7BC0 U+91CD U+9EDE
section_title(title, matches) ==
    IF title # <<>> THEN title
    ELSE IF matches = <<>> THEN <<31456, 31680, 37325, 40670>>
    ELSE IF matches[1].section_title # <<>> THEN matches[1].section_title
    ELSE <<31532>> \o IntText(matches[1].page) \o <<38913, 20027, 38988>>

\* one iteration of the loop of _normalize_sections (lines 340-386) on the
\* section raw of the response: the section it appends, if any
normalize_section(raw, chunks, embeddings, mini_summaries, embeds, used) ==
    LET made(title, summary, cited) ==
            IF cited.raised THEN Raised(cited.used)
            ELSE IF summary = <<>> THEN Returned(<<>>, cited.used)
            ELSE Returned(<<[title |-> title, summary |-> summary,
                             citations |-> first_of_pages(cited.out, 4)]>>, cited.used)
        cite(title, query, summary, citations) ==
            made(title, summary,
                 IF Len(citations) < 2
                 THEN citations_for_text(IF query # <<>> THEN query ELSE summary,
                                         chunks, embeddings, embeds, used + 1)
                 ELSE Returned(citations, used + 1))
        summarize(title, summary, query, matches, fallback_sentences) ==
            cite(section_title(title, matches), query,
                 IF normalize_paragraph(summary, 2, 4, fallback_sentences) # <<>>
                 THEN normalize_paragraph(summary, 2, 4, fallback_sentences)
                 ELSE normalize_paragraph(<<>>, 2, 4, fallback_sentences),
                 SelectSeq(normalize_section_citations(raw.citations),
                           LAMBDA c : LookupChunk(chunks, c.chunk_id) # <<>>))
        match(title, summary, query, matches) ==
            summarize(title, summary, query, matches, mini_sentences(matches, mini_summaries))
        search(title, summary, query) ==
            IF Embed(embeds, used + 1) = EmbedFails THEN Raised(used + 1)
            ELSE match(title, summary, query,
                       filter_low_info_chunks(search_index(Embed(embeds, used + 1), chunks,
                                                           embeddings, 6)))
        begin(title, summary) == search(title, summary, Strip(title \o <<32>> \o summary))
    IN begin(Strip(raw.title), Strip(raw.summary))

RECURSIVE normalize_sections_from(_, _, _, _, _, _, _, _)
\* the loop of _normalize_sections from the sections it has so far
normalize_sections_from(sections, raw_sections, chunks, embeddings, mini_summaries, target_sections, embeds, used) ==
    LET go_on(step) ==
            IF step.raised THEN step
            ELSE IF Len(sections \o step.out) >= target_sections /\ step.out # <<>>
            THEN Returned(sections \o step.out, step.used)
            ELSE normalize_sections_from(sections \o step.out, Tail(raw_sections), chunks,
                                         embeddings, mini_summaries, target_sections,
                                         embeds, step.used)
    IN IF raw_sections = <<>> THEN Returned(sections, used)
       ELSE go_on(normalize_section(Head(raw_sections), chunks, embeddings, mini_summaries,
                                    embeds, used))

\* _normalize_sections
normalize_sections(raw_sections, chunks, embeddings, mini_summaries, target_sections, embeds, used) ==
    normalize_sections_from(<<>>, raw_sections, chunks, embeddings, mini_summaries,
                            target_sections, embeds, used)

\* max(a, b) and min(a, b) of ints
MaxInt(a, b) == IF a > b THEN a ELSE b
MinInt(a, b) == IF a < b THEN a ELSE b

\* lines 913-916 and 471-474: the number of sections asked for and the
\* floors of the validation gate, from the pages of the selected chunks
target_sections_of(selected_chunks) ==
    MinInt(6, MaxInt(3, (Cardinality(PagesOf(selected_chunks)) + 4) \div 5))
min_unique_pages_of(selected_chunks) ==
    IF Cardinality(PagesOf(selected_chunks)) >= 2 THEN 2 ELSE 1
min_citations_of(selected_chunks) ==
    IF Cardinality(PagesOf(selected_chunks)) >= 2 THEN 2 ELSE 1

\* _build_section_groups: the groups as records of a title and the chunks;
\* a group without title is named U+7B2C a - b U+9801 U+91CD U+9EDE after
\* its first and last page
build_section_groups(selected_chunks, target_sections) ==
    LET group(bucket_pages, bucket_chunks) ==
            IF bucket_chunks = <<>> THEN <<>>
            ELSE <<[title |-> IF bucket_chunks[1].section_title # <<>>
                              THEN bucket_chunks[1].section_title
                              ELSE <<31532>> \o IntText(bucket_pages[1]) \o <<45>>
                                   \o IntText(bucket_pages[Len(bucket_pages)]) \o <<38913, 37325, 40670>>,
                    chunks |-> bucket_chunks]>>
        bucket(bucket_pages) ==
            group(bucket_pages,
                  SelectSeq(selected_chunks,
                            LAMBDA c : /\ \E k \in 1..Len(bucket_pages) : bucket_pages[k] = c.page
                                       /\ ~is_low_info_chunk(c)))
        groups(pages, bucket_size) ==
            Present([b \in 1..((Len(pages) + bucket_size - 1) \div bucket_size) |->
                        bucket(SubSeq(pages, (b - 1) * bucket_size + 1,
                                      MinInt(b * bucket_size, Len(pages))))])
        sized(pages) ==
            groups(pages, MaxInt(1, (Len(pages) + target_sections - 1) \div target_sections))
    IN sized(SortedSeq(PagesOf(selected_chunks)))

\* the pages of the citations of the sections (line 416)
covered_pages(sections) ==
    UNION {{sections[s].citations[c].page : c \in 1..Len(sections[s].citations)} :
              s \in 1..Len(sections)}

RECURSIVE cover_missing_pages(_, _, _, _)
\* the loop of lines 426-437 from the missing page numbered idx (from 0) on
cover_missing_pages(sections, pages, idx, selected_chunks) ==
    LET at == (idx % Len(sections)) + 1
        covered(page_chunks, page) ==
            IF \/ page_chunks = <<>>
               \/ \E c \in 1..Len(sections[at].citations) : sections[at].citations[c].page = page
               \/ Len(sections[at].citations) >= 4
            THEN sections
            ELSE [sections EXCEPT
                     ![at].citations = Append(@, [page |-> page_chunks[1].page,
                                                  chunk_id |-> page_chunks[1].chunk_id])]
        with(page) ==
            covered(SelectSeq(selected_chunks,
                              LAMBDA c : c.page = page /\ ~is_low_info_chunk(c)), page)
    IN IF pages = <<>> THEN sections
       ELSE cover_missing_pages(with(Head(pages)), Tail(pages), idx + 1, selected_chunks)

\* _ensure_section_coverage; int(len(pages_all) * 0.6) is the floor of
\* six tenths
ensure_section_coverage(sections, selected_chunks) ==
    LET cover(pages_all, covered) ==
            IF Cardinality(covered) >= MaxInt(1, (Len(pages_all) * 6) \div 10)
            THEN sections
            ELSE cover_missing_pages(sections,
                                     SelectSeq(pages_all, LAMBDA page : page \notin covered),
                                     0, selected_chunks)
    IN IF sections = <<>> \/ selected_chunks = <<>> THEN sections
       ELSE cover(SortedSeq(PagesOf(selected_chunks)), covered_pages(sections))

\* _validate_summary_block
validate_summary_block(summary, min_unique_pages, min_citations) ==
    /\ Len(split_sentences(summary.overview)) >= 2
    /\ Len(summary.sections) >= 3
    /\ Len(summary.keypoints) >= 5
    /\ \A s \in 1..Len(summary.sections) :
          /\ Len(split_sentences(summary.sections[s].summary)) >= 2
          /\ Len(summary.sections[s].citations) >= min_citations
          /\ Cardinality({summary.sections[s].citations[c].page :
                             c \in 1..Len(summary.sections[s].citations)}) >= min_unique_pages

RECURSIVE fallback_sections(_, _, _, _, _, _, _, _)
\* the loop of lines 477-486 over the groups, from the sections it has
fallback_sections(sections, groups, mini_summaries, chunks, embeddings, target_sections, embeds, used) ==
    LET go_on(title, summary, cited) ==
            IF cited.raised THEN cited
            ELSE IF Len(sections) + 1 >= target_sections
            THEN Returned(Append(sections, [title |-> title, summary |-> summary,
                                            citations |-> cited.out]), cited.used)
            ELSE fallback_sections(Append(sections, [title |-> title, summary |-> summary,
                                                     citations |-> cited.out]),
                                   Tail(groups), mini_summaries, chunks, embeddings,
                                   target_sections, embeds, cited.used)
        section(title, summary) ==
            go_on(title, summary,
                  citations_for_text(title \o <<32>> \o summary, chunks, embeddings, embeds,
                                     used))
    IN IF groups = <<>> THEN Returned(sections, used)
       ELSE section(Head(groups).title,
                    normalize_paragraph(<<>>, 2, 4,
                                        mini_sentences(Head(groups).chunks, mini_summaries)))

\* _build_summary_block_from_mini
build_summary_block_from_mini(mini_summaries, selected_chunks, chunks, embeddings, embeds, used) ==
    LET block(fallback_sentences, made) ==
            IF made.raised THEN made
            ELSE Returned([overview |-> normalize_paragraph(<<>>, 2, 3, fallback_sentences),
                           sections |-> ensure_section_coverage(made.out, selected_chunks),
                           keypoints |-> normalize_keypoints(<<>>, fallback_sentences)],
                          made.used)
    IN block(sentences_from_mini_summaries(mini_summaries),
             fallback_sections(<<>>,
                               build_section_groups(selected_chunks,
                                                    target_sections_of(selected_chunks)),
                               mini_summaries, chunks, embeddings,
                               target_sections_of(selected_chunks), embeds, used))

\* the body of the while loop of reduce_summarize up to line 940: the
\* summary_block made of the response data
reduce_attempt(data, mini_summaries, selected_chunks, chunks, embeddings, embeds, used) ==
    LET block(fallback_sentences, made) ==
            IF made.raised THEN made
            ELSE Returned([overview |-> normalize_paragraph(Strip(data.overview), 2, 3,
                                                            fallback_sentences),
                           sections |-> ensure_section_coverage(made.out, selected_chunks),
                           keypoints |->
                               normalize_keypoints(
                                   SelectSeq([k \in 1..Len(data.keypoints) |->
                                                 Strip(data.keypoints[k])],
                                             LAMBDA kp : kp # <<>>),
                                   fallback_sentences)],
                          made.used)
    IN block(sentences_from_mini_summaries(mini_summaries),
             normalize_sections(data.sections, chunks, embeddings, mini_summaries,
                                target_sections_of(selected_chunks), embeds, used))

(***************************************************************************)
(* quizcraft/retrieval.py: select_chunks.  The result is given by the      *)
(* positions in chunks of the chunks it returns, in the order it returns   *)
(* them.                                                                   *)
(***************************************************************************)

\* len(queries), the queries select_chunks embeds
QueryCount == 11

\* query_embeddings (line 69): client.embed answers the queries one by one
query_embeddings(embeds, used) ==
    LET fails == {k \in 1..QueryCount : Embed(embeds, used + k) = EmbedFails}
    IN IF fails = {} THEN Returned([k \in 1..QueryCount |-> Embed(embeds, used + k)],
                                   used + QueryCount)
       ELSE Raised(used + MinOf(fails))

\* line 73: max(...), the greatest similarity of emb to a query
chunk_score(emb, q_embs) ==
    LET scores == {cosine_similarity(emb, q_embs[k]) : k \in 1..Len(q_embs)}
    IN CHOOSE s \in scores : \A t \in scores : ~SimGreater(t, s)

\* lines 71-76: the positions of the chunks by descending score, equal
\* scores in input order (list.sort is stable)
scored_order(chunks, embeddings, q_embs) ==
    LET n == MinInt(Len(chunks), Len(embeddings))
        sorted(score) ==
            LET before(j, i) == SimGreater(score[j], score[i])
                                \/ (~SimGreater(score[i], score[j]) /\ j < i)
                rank(i) == 1 + Cardinality({j \in 1..n : before(j, i)})
            IN [r \in 1..n |-> CHOOSE i \in 1..n : rank(i) = r]
    IN sorted(SubSeq([i \in 1..n |-> chunk_score(embeddings[i], q_embs)], 1, n))

\* chunk.get("section_title") or f"page_{chunk['page']}"
bucket_key(chunk) ==
    IF chunk.section_title # <<>> THEN chunk.section_title
    ELSE <<112, 97, 103, 101, 95>> \o IntText(chunk.page)

\* the keys of the dict buckets (lines 81-84)
bucket_keys(chunks, order) == {bucket_key(chunks[order[i]]) : i \in 1..Len(order)}

\* buckets[bucket] while the loop runs: the chunks of the bucket selected so far
bucket_count(chunks, selected, bucket) ==
    Cardinality({j \in 1..Len(selected) : bucket_key(chunks[selected[j]]) = bucket})

\* max_per_bucket with one chunk more for every bucket
max_per_bucket_and_one(chunks, order, top_k) ==
    MaxInt(1, top_k \div MaxInt(1, Cardinality(bucket_keys(chunks, order)))) + 1

\* line 86
max_per_bucket(chunks, order, top_k) ==
    MaxInt(1, top_k \div MaxInt(1, Cardinality(bucket_keys(chunks, order))))

RECURSIVE select_loop(_, _, _, _, _, _, _)
\* the loop of lines 92-101 from the chunk at pos of the order on
select_loop(chunks, order, pos, selected, remainder, top_k, per_bucket) ==
    IF pos > Len(order) THEN [selected |-> selected, remainder |-> remainder]
    ELSE IF bucket_count(chunks, selected, bucket_key(chunks[order[pos]])) < per_bucket
    THEN IF Len(selected) + 1 >= top_k
         THEN [selected |-> Append(selected, order[pos]), remainder |-> remainder]
         ELSE select_loop(chunks, order, pos + 1, Append(selected, order[pos]), remainder,
                          top_k, per_bucket)
    ELSE IF Len(selected) >= top_k
         THEN [selected |-> selected, remainder |-> Append(remainder, order[pos])]
         ELSE select_loop(chunks, order, pos + 1, selected, Append(remainder, order[pos]),
                          top_k, per_bucket)

\* lines 103-107: the fill from the remainder and the cut to top_k (top_k >= 0)
fill_and_cut(looped, order, top_k) ==
    LET filled == IF Len(looped.selected) < top_k
                  THEN looped.selected
                       \o SubSeq(looped.remainder, 1,
                                 MinInt(top_k - Len(looped.selected), Len(looped.remainder)))
                  ELSE looped.selected
    IN [scored |-> order,
        picked |-> SubSeq(filled, 1, MinInt(top_k, Len(filled))),
        remainder_used |-> Len(looped.selected) < top_k /\ looped.remainder # <<>>]

\* select_chunks(chunks, embeddings, embed, top_k, seed, balanced = True)
select_chunks(chunks, embeddings, top_k, embeds, used) ==
    LET selection(order) ==
            fill_and_cut(select_loop(chunks, order, 1, <<>>, <<>>, top_k,
                                     max_per_bucket(chunks, order, top_k)), order, top_k)
        selected(queries) ==
            IF queries.raised THEN queries
            ELSE Returned(selection(scored_order(chunks, embeddings, queries.out)),
                          queries.used)
    IN selected(query_embeddings(embeds, used))

(***************************************************************************)
(* quizcraft/pipeline.py: the embedding cache.  A cache file is a record   *)
(* of its kind ("missing", "unreadable" when open or json.load raises,     *)
(* "value" for a JSON value that is no object, "object") and, for an       *)
(* object, of its entries chunk_ids and embeddings: <<>> when the entry is *)
(* absent or no list, <<list>> otherwise.                                  *)
(***************************************************************************)

\* [chunk["chunk_id"] for chunk in chunks]
chunk_ids_of(chunks) == [i \in 1..Len(chunks) |-> chunks[i].chunk_id]

\* _load_embeddings comparing only the number of chunk ids, not the ids
load_embeddings_by_length(file, chunks) ==
    IF file.kind \in {"missing", "unreadable"} THEN [out |-> <<>>, raised |-> FALSE]
    ELSE IF file.kind = "value" THEN [out |-> <<>>, raised |-> TRUE]
    ELSE IF file.chunk_ids = <<>> \/ Len(file.chunk_ids[1]) # Len(chunks)
    THEN [out |-> <<>>, raised |-> FALSE]
    ELSE IF file.embeddings = <<>> \/ Len(file.embeddings[1]) # Len(chunks)
    THEN [out |-> <<>>, raised |-> FALSE]
    ELSE [out |-> file.embeddings, raised |-> FALSE]

\* _load_embeddings: <<>> for None, <<embeddings>> for the cached list, or
\* the AttributeError of data.get on a JSON value that is no object
load_embeddings(file, chunks) ==
    IF file.kind \in {"missing", "unreadable"} THEN [out |-> <<>>, raised |-> FALSE]
    ELSE IF file.kind = "value" THEN [out |-> <<>>, raised |-> TRUE]
    ELSE IF file.chunk_ids # <<chunk_ids_of(chunks)>> THEN [out |-> <<>>, raised |-> FALSE]
    ELSE IF file.embeddings = <<>> \/ Len(file.embeddings[1]) # Len(chunks)
    THEN [out |-> <<>>, raised |-> FALSE]
    ELSE [out |-> file.embeddings, raised |-> FALSE]

\* the file _save_embeddings writes
save_embeddings(chunks, embeddings) ==
    [kind |-> "object", chunk_ids |-> <<chunk_ids_of(chunks)>>, embeddings |-> <<embeddings>>]

\* cache files: none, one that json.load rejects, a JSON list, and objects
MissingFile == [kind |-> "missing", chunk_ids |-> <<>>, embeddings |-> <<>>]
UnreadableFile == [kind |-> "unreadable", chunk_ids |-> <<>>, embeddings |-> <<>>]
ListFile == [kind |-> "value", chunk_ids |-> <<>>, embeddings |-> <<>>]
BareObjectFile == [kind |-> "object", chunk_ids |-> <<>>, embeddings |-> <<>>]
FileOfOne == [kind |-> "object", chunk_ids |-> << <<"p1_c1">> >>, embeddings |-> << << <<1, 0>> >> >>]
FileOfTwo == [kind |-> "object", chunk_ids |-> << <<"p1_c1", "p2_c1">> >>, embeddings |-> << << <<1, 0>>, <<0, 1>> >> >>]
FileSwapped == [kind |-> "object", chunk_ids |-> << <<"p2_c1", "p1_c1">> >>, embeddings |-> << << <<0, 1>>, <<1, 0>> >> >>]
FileShort == [kind |-> "object", chunk_ids |-> << <<"p1_c1", "p2_c1">> >>, embeddings |-> << << <<1, 0>> >> >>]
FileNoList == [kind |-> "object", chunk_ids |-> << <<"p1_c1", "p2_c1">> >>, embeddings |-> <<>>]
CacheFiles == { MissingFile, UnreadableFile, ListFile, BareObjectFile, FileOfOne, FileOfTwo, FileSwapped, FileShort, FileNoList }

(***************************************************************************)
(* quizcraft/utils.py and quizcraft/schemas.py: what map_summarize uses.   *)
(* A raw mini summary is the dict of the generator's answer, as a record   *)
(* [mini_summary, keywords, citations, evidence_quotes]: mini_summary a    *)
(* text (empty when the key is absent), keywords a sequence of texts (empty*)
(* when the key is absent or no list), citations and evidence_quotes as in *)
(* a raw question.                                                         *)
(***************************************************************************)

\* the positions of text where a token of \w+|[^\s\w] starts
token_starts(text) ==
    {i \in 1..Len(text) :
        /\ ~IsSpace(text[i])
        /\ (IsWordChar(text[i]) => (i = 1 \/ ~IsWordChar(text[i - 1])))}

\* the loop of trim_to_tokens over the tokens of \w+|[^\s\w]|\s+ : the length
\* of the prefix of text that is kept, which ends before the token number
\* max_tokens + 1 that is no whitespace
trim_scan(text, max_tokens) ==
    IF Cardinality(token_starts(text)) <= max_tokens THEN Len(text)
    ELSE (CHOOSE i \in token_starts(text) :
             Cardinality({j \in token_starts(text) : j < i}) = max_tokens) - 1

\* trim_to_tokens
trim_to_tokens(text, max_tokens) ==
    IF max_tokens <= 0 THEN text
    ELSE Strip(SubSeq(text, 1, trim_scan(text, max_tokens)))

\* text_head
text_head(text, max_chars) ==
    IF max_chars <= 0 \/ Len(text) <= max_chars THEN text
    ELSE RStrip(SubSeq(text, 1, max_chars))

\* [str(k).strip() for k in keywords_raw if str(k).strip()]
strip_all(texts) ==
    LET stripped(kept) == [i \in 1..Len(kept) |-> Strip(kept[i])]
    IN stripped(SelectSeq(texts, LAMBDA k : Strip(k) # <<>>))

\* normalize_mini_summary
normalize_mini_summary(raw, page, chunk_id) ==
    [page |-> page,
     chunk_id |-> chunk_id,
     mini_summary |-> Strip(raw.mini_summary),
     keywords |-> strip_all(raw.keywords),
     citations |-> IF normalize_citations(raw.citations) = <<>>
                   THEN <<[page |-> page, chunk_id |-> chunk_id]>>
                   ELSE normalize_citations(raw.citations),
     evidence_quotes |-> normalize_evidence_quotes(raw.evidence_quotes)]

\* the dict {}
EmptyMini == [mini_summary |-> <<>>, keywords |-> <<>>, citations |-> <<>>, evidence_quotes |-> <<>>]

\* text_head(chunk_text, 120) in map_summarize
MiniHeadChars == 120

\* one turn of the loop of map_summarize: the mini summary of chunk after
\* the chat call has returned the dict data ({} when the call raised)
map_chunk(data, chunk, chunk_tokens) ==
    LET mini == normalize_mini_summary(data, chunk.page, chunk.chunk_id)
    IN IF mini.mini_summary = <<>>
       THEN [mini EXCEPT !.mini_summary =
                text_head(trim_to_tokens(chunk.text, chunk_tokens), MiniHeadChars)]
       ELSE mini

(***************************************************************************)
(* quizcraft/schemas.py and quizcraft/pipeline.py: the concepts.  A raw    *)
(* concept is an item of the generator's list, as a record [is_dict, name, *)
(* description, citations, difficulty]: name and description are texts     *)
(* (empty when the key is absent), difficulty is <<>> when the key is      *)
(* absent and <<text>> otherwise.  A Concept is a record [name,            *)
(* description, citations, difficulty] whose name is a text.  A mini       *)
(* summary is the record normalize_mini_summary builds.                    *)
(***************************************************************************)

T_medium == <<109, 101, 100, 105, 117, 109>>  \* "medium"
T_dots == <<46, 46, 46>>                      \* "..."

\* the characters of rstrip in the name of a snippet: U+FF0C U+3002 U+FF1B
SnippetStops == {65292, 12290, 65307}

\* the length of the name of a snippet and of the description of a keyword
SnippetNameLen == 20
KeywordDescLen == 50

\* normalize_concepts, applied to a list
normalize_concepts(raw) ==
    LET concept_of(item) ==
            [name |-> Strip(item.name),
             description |-> Strip(item.description),
             citations |-> normalize_citations(item.citations),
             difficulty |-> IF item.difficulty = <<>> THEN T_medium
                            ELSE Lower(item.difficulty[1])]
        all_of(kept) == [i \in 1..Len(kept) |-> concept_of(kept[i])]
    IN all_of(SelectSeq(raw, LAMBDA item : item.is_dict /\ Strip(item.name) # <<>>))

\* the names of a list of concepts
concept_names(list) == {list[i].name : i \in 1..Len(list)}

\* first_citation of _fallback_concepts_from_mini, as the list
\* [first_citation] if first_citation else []
RECURSIVE first_citation(_, _)
first_citation(mini_summaries, i) ==
    IF i > Len(mini_summaries) THEN <<>>
    ELSE IF mini_summaries[i].citations # <<>> THEN <<mini_summaries[i].citations[1]>>
    ELSE first_citation(mini_summaries, i + 1)

\* the calls of add_concept in the loop over the keypoints, as concepts with
\* the origin of the name
keypoint_candidates(keypoints, mini_summaries) ==
    [i \in 1..Len(keypoints) |->
        [name |-> keypoints[i], description |-> <<>>,
         citations |-> first_citation(mini_summaries, 1), difficulty |-> T_medium,
         origin |-> "keypoint"]]

\* the calls of add_concept for one mini summary: its keywords, then its
\* snippet when the stripped mini_summary is not empty
mini_candidates(ms) ==
    [i \in 1..Len(ms.keywords) |->
        [name |-> ms.keywords[i],
         description |-> Prefix(ms.mini_summary, KeywordDescLen),
         citations |-> Prefix(ms.citations, 1), difficulty |-> T_medium,
         origin |-> "keyword"]]
    \o (IF Strip(ms.mini_summary) = <<>> THEN <<>>
        ELSE <<[name |-> RStripChars(Prefix(Strip(ms.mini_summary), SnippetNameLen),
                                     SnippetStops) \o T_dots,
                description |-> Strip(ms.mini_summary),
                citations |-> Prefix(ms.citations, 1), difficulty |-> T_medium,
                origin |-> "snippet"]>>)

RECURSIVE all_mini_candidates(_, _)
all_mini_candidates(mini_summaries, i) ==
    IF i > Len(mini_summaries) THEN <<>>
    ELSE mini_candidates(mini_summaries[i]) \o all_mini_candidates(mini_summaries, i + 1)

\* add_concept
add_concept(list, candidate) ==
    IF candidate.name = <<>> \/ candidate.name \in concept_names(list) THEN list
    ELSE Append(list, candidate)

\* the loops of _fallback_concepts_from_mini: after each call of add_concept
\* the function returns when it has question_count concepts
RECURSIVE add_candidates(_, _, _, _)
add_candidates(candidates, i, list, question_count) ==
    IF i > Len(candidates) THEN list
    ELSE IF Len(add_concept(list, candidates[i])) >= question_count
    THEN add_concept(list, candidates[i])
    ELSE add_candidates(candidates, i + 1, add_concept(list, candidates[i]), question_count)

\* the concepts of _fallback_concepts_from_mini, each with the origin of its
\* name
fallback_picks(keypoints, mini_summaries, question_count) ==
    add_candidates(keypoint_candidates(keypoints, mini_summaries)
                      \o all_mini_candidates(mini_summaries, 1),
                   1, <<>>, question_count)

\* a concept without the origin of its name
plain_concept(c) ==
    [name |-> c.name, description |-> c.description, citations |-> c.citations,
     difficulty |-> c.difficulty]

\* _fallback_concepts_from_mini
fallback_concepts_from_mini(keypoints, mini_summaries, question_count) ==
    [i \in 1..Len(fallback_picks(keypoints, mini_summaries, question_count)) |->
        plain_concept(fallback_picks(keypoints, mini_summaries, question_count)[i])]

\* the loop of extract_concepts over the fallback concepts
RECURSIVE append_fallback(_, _, _, _)
append_fallback(list, fallback, i, question_count) ==
    IF i > Len(fallback) THEN list
    ELSE IF fallback[i].name \in concept_names(list)
    THEN append_fallback(list, fallback, i + 1, question_count)
    ELSE IF Len(list) + 1 >= question_count THEN Append(list, fallback[i])
    ELSE append_fallback(Append(list, fallback[i]), fallback, i + 1, question_count)

\* extract_concepts after the chat call has returned the dict whose entry
\* "concepts" is raw (empty for {} and when the entry is no list)
extract_concepts(raw, keypoints, mini_summaries, question_count) ==
    IF Len(Prefix(normalize_concepts(raw), question_count)) < question_count
    THEN append_fallback(Prefix(normalize_concepts(raw), question_count),
                         fallback_concepts_from_mini(keypoints, mini_summaries, question_count),
                         1, question_count)
    ELSE Prefix(normalize_concepts(raw), question_count)

(***************************************************************************)
(* quizcraft/pipeline.py: _select_chunk_set.                               *)
(***************************************************************************)

\* the selector is used for a long document only
use_selector_by_pages(page_count, chunks, settings) ==
    page_count >= settings.long_doc_threshold_pages

\* lines 693-697: whether select_chunks is called
use_selector(page_count, chunks, settings) ==
    \/ page_count >= settings.long_doc_threshold_pages
    \/ Len(chunks) >= settings.selector_chunk_threshold
    \/ Len(chunks) > settings.max_chunks

\* line 702: the top_k of the call of select_chunks
selector_top_k(chunks, settings) ==
    MinInt(MinInt(settings.top_k_chunks, settings.max_chunks), Len(chunks))

\* _select_chunk_set: the positions in chunks of the chunks it returns, and
\* whether select_chunks made them
select_chunk_set(page_count, chunks, embeddings, settings, embeds, used) ==
    LET by_selector(step) ==
            IF step.raised THEN step
            ELSE Returned([picked |-> step.out.picked, selector |-> TRUE], step.used)
    IN IF ~use_selector(page_count, chunks, settings)
       THEN Returned([picked |-> [i \in 1..Len(chunks) |-> i], selector |-> FALSE], used)
       ELSE by_selector(select_chunks(chunks, embeddings, selector_top_k(chunks, settings),
                                      embeds, used))

(***************************************************************************)
(* quizcraft/pipeline.py: _filter_pages.  A page is the record [page,      *)
(* text, lines] of ingest_pdf.  The settings are [pages_filter,            *)
(* chapter_filter, max_pages]: pages_filter a set of page numbers ({} for  *)
(* None or an empty set), chapter_filter a text (<<>> for None or ""),     *)
(* max_pages <<>> for None and <<m>> for the integer m.                    *)
(***************************************************************************)

\* list[:m]
slice_to(list, m) ==
    IF m >= 0
    THEN SubSeq(list, 1, IF m < Len(list) THEN m ELSE Len(list))
    ELSE SubSeq(list, 1, IF Len(list) + m > 0 THEN Len(list) + m ELSE 0)

\* settings.chapter_filter in page.get("text", "") or in one of the lines
chapter_match(page, chapter_filter) ==
    \/ HasSub(page.text, chapter_filter)
    \/ \E k \in 1..Len(page.lines) : HasSub(page.lines[k], chapter_filter)

\* the page filter without the fallback to the full document
by_pages_no_fallback(pages, settings) ==
    IF settings.pages_filter # {}
    THEN SelectSeq(pages, LAMBDA page : page.page \in settings.pages_filter)
    ELSE pages

\* if settings.pages_filter: ... if not filtered: filtered = pages
by_pages(pages, settings) ==
    IF settings.pages_filter # {}
       /\ SelectSeq(pages, LAMBDA page : page.page \in settings.pages_filter) # <<>>
    THEN SelectSeq(pages, LAMBDA page : page.page \in settings.pages_filter)
    ELSE pages

\* if settings.chapter_filter: ... if matches: filtered = matches
by_chapter(filtered, settings) ==
    IF settings.chapter_filter # <<>>
       /\ SelectSeq(filtered, LAMBDA page : chapter_match(page, settings.chapter_filter)) # <<>>
    THEN SelectSeq(filtered, LAMBDA page : chapter_match(page, settings.chapter_filter))
    ELSE filtered

\* _filter_pages
filter_pages(pages, settings) ==
    IF settings.max_pages # <<>>
    THEN slice_to(by_chapter(by_pages(pages, settings), settings), settings.max_pages[1])
    ELSE by_chapter(by_pages(pages, settings), settings)

(***************************************************************************)
(* run_pipeline from the concepts on (lines 1340-1400), with the calls of  *)
(* generate_question_for_concept and verify_questions it makes.  A step is *)
(* what the program does between two calls of the backend.  client is any  *)
(* object with the methods embed and chat_json as pipeline.py calls them:  *)
(* embed answers a vector or raises, chat_json answers a JSON value or     *)
(* raises.                                                                 *)
(***************************************************************************)

\* settings.question_count, settings.question_retries, settings.verify_retries
QuestionCount == 1
QuestionRetries == 1
VerifyRetries == 1

\* the fields of Settings the run reads, for a value of --question-types
SettingsOf(question_types) ==
    [question_count |-> QuestionCount, question_retries |-> QuestionRetries,
     verify_retries |-> VerifyRetries, question_types |-> question_types]

\* the runs: the chunks chunk_pages made of the PDF, the concepts
\* extract_concepts found (one: it returns question_count concepts, lines
\* 1030 and 1032-1041), and the settings
Runs ==
    { [document |-> <<ChunkSense, ChunkPlan, ChunkNoise>>,
       concepts |-> <<ConceptLoose>>,
       settings |-> SettingsOf(<<T_tf, T_mcq>>)],
      [document |-> <<ChunkSense, ChunkPlan, ChunkNoise>>,
       concepts |-> <<ConceptPlan>>,
       settings |-> SettingsOf(<<T_mcq, T_tf>>)],
      [document |-> <<ChunkPlan, ChunkNoise>>,
       concepts |-> <<ConceptPlan>>,
       settings |-> SettingsOf(<<T_tf, T_mcq>>)] }

\* the id f"q{n}"
QuestionId(n) == <<"q1", "q2", "q3", "q4", "q5", "q6", "q7", "q8", "q9">>[n]

VARIABLES
    settings,             \* run_pipeline: settings
    chunks,               \* run_pipeline: chunks, after the low-info filter
    embeddings,           \* run_pipeline: embeddings
    concepts,             \* run_pipeline: concepts
    pc,                   \* where the run is
    idx,                  \* run_pipeline: idx of the next concept of the main pass
    questions,            \* run_pipeline: questions
    verified_questions,   \* run_pipeline: verified_questions
    attempts,             \* run_pipeline: attempts of the top-up loop
    next_id,              \* run_pipeline: next_id of the top-up loop
    gen,                  \* the running call of generate_question_for_concept
    ver,                  \* the running call of verify_questions
    select,               \* the call of select_chunks
    reduce,               \* the call of reduce_summarize
    search,               \* the call of search_index
    startup,              \* run_pipeline up to the embeddings
    cache,                \* the call of _build_or_load_embeddings and the cache file
    map,                  \* the call of map_summarize
    extract               \* the call of extract_concepts

vars == <<settings, chunks, embeddings, concepts, pc, idx, questions, verified_questions,
          attempts, next_id, gen, ver, select, reduce, search, startup, cache, map, extract>>

\* the frames of search_index, of the start of the run, of the embedding
\* cache, of map_summarize and of extract_concepts
others == <<search, startup, cache, map, extract>>

\* settings.question_types[(n - 1) % len(settings.question_types)]
QuestionType(n) == settings.question_types[((n - 1) % Len(settings.question_types)) + 1]

\* _validate_question(question, settings)
Valid(question) == validate_question(question, settings.question_types)

NoConcept == [name |-> "", citations |-> <<>>]

\* no call of generate_question_for_concept is running
NoGenerate ==
    [caller |-> "none", attempt |-> 0, question |-> EmptyQuestion, concept |-> NoConcept,
     evidence_chunks |-> <<>>, question_id |-> "", question_type |-> <<>>]

\* no call of verify_questions is running
NoVerify ==
    [caller |-> "none", questions |-> <<>>, position |-> 0, attempts |-> 0,
     current |-> EmptyQuestion, evidence_chunks |-> <<>>, verified |-> <<>>,
     supported |-> FALSE, rewritten |-> FALSE, regenerated |-> FALSE]

\* no call of search_index is running
NoSearch == [state |-> "none", query_emb |-> <<>>, top_k |-> 0, scored |-> <<>>, matches |-> <<>>]

\* run_pipeline has not started
NoStartup == [pages |-> 0, document |-> <<>>, health |-> FALSE, events |-> <<>>]

\* no call of _build_or_load_embeddings is running and there is no cache file
NoCache == [state |-> "none", enabled |-> FALSE, file |-> MissingFile, built |-> <<>>]

\* no call of map_summarize is running
NoMap == [state |-> "none", chunks |-> <<>>, chunk_tokens |-> 0, calls |-> 0, answers |-> <<>>,
          summaries |-> <<>>]

\* no call of extract_concepts is running
NoExtract ==
    [state |-> "none", keypoints |-> <<>>, mini_summaries |-> <<>>, question_count |-> 0,
     answer |-> [kind |-> "none", concepts |-> <<>>], fallback |-> <<>>, concepts |-> <<>>]

\* the calls of the other phases are not running
RestIdle ==
    /\ search = NoSearch
    /\ startup = NoStartup
    /\ cache = NoCache
    /\ map = NoMap
    /\ extract = NoExtract

\* no call of select_chunks is running
NoSelect ==
    [state |-> "none", top_k |-> 0, scored |-> <<>>, picked |-> <<>>, selected |-> <<>>,
     remainder_used |-> FALSE]

\* summary_block before the first attempt (line 909)
EmptyBlock == [overview |-> <<>>, sections |-> <<>>, keypoints |-> <<>>]

\* no call of reduce_summarize is running
NoReduce ==
    [state |-> "none", attempts |-> 0, calls |-> 0, summary_block |-> EmptyBlock,
     mini_summaries |-> <<>>, selected_chunks |-> <<>>, fallback |-> FALSE]

\* lines 1319-1324: the chunks without the low-info ones, unless all are
pipeline_chunks(document) ==
    LET or_all(filtered) == IF filtered # <<>> THEN filtered ELSE document
    IN or_all(filter_low_info_chunks(document))

Init ==
    /\ \E run \in Runs :
          /\ settings = run.settings
          /\ chunks = pipeline_chunks(run.document)
          /\ embeddings = [i \in 1..Len(chunks) |-> ChunkEmbedding(chunks[i])]
          /\ concepts = run.concepts
    /\ pc = "main"
    /\ idx = 1
    /\ questions = <<>>
    /\ verified_questions = <<>>
    /\ attempts = 0
    /\ next_id = 0
    /\ gen = NoGenerate
    /\ ver = NoVerify
    /\ select = NoSelect
    /\ reduce = NoReduce
    /\ RestIdle

\* an exception leaves run_pipeline: its frame and those of its callees are gone
Raise ==
    /\ pc' = "raised"
    /\ idx' = 0
    /\ questions' = <<>>
    /\ verified_questions' = <<>>
    /\ attempts' = 0
    /\ next_id' = 0
    /\ gen' = NoGenerate
    /\ ver' = NoVerify
    /\ UNCHANGED <<others, select, reduce, settings, chunks, embeddings, concepts>>

\* the call generate_question_for_concept(client, settings, concept,
\* _select_evidence_chunks(...), question_id, question_type) begins
CallGenerate(caller, concept, question_id, question_type, embedding) ==
    /\ pc' = "generate"
    /\ gen' = [caller |-> caller, attempt |-> 0, question |-> EmptyQuestion,
               concept |-> concept,
               evidence_chunks |-> select_evidence_chunks(concept, chunks, embeddings, embedding),
               question_id |-> question_id, question_type |-> question_type]

\* the state of verify_questions at the head of its for loop body
VerifyQuestion(caller, list, position, verified) ==
    [caller |-> caller, questions |-> list, position |-> position, attempts |-> 0,
     current |-> list[position], evidence_chunks |-> <<>>, verified |-> verified,
     supported |-> FALSE, rewritten |-> FALSE, regenerated |-> FALSE]

\* verify_questions returns verified to run_pipeline: to line 1368 after the
\* main pass, to line 1392 in the top-up loop
ReturnVerified(caller, verified) ==
    /\ ver' = NoVerify
    /\ IF caller = "main"
       THEN /\ verified_questions' = verified
            /\ IF Len(verified) < settings.question_count /\ concepts # <<>>
               THEN /\ pc' = "topup"
                    /\ attempts' = 0
                    /\ next_id' = Len(verified) + 1
               ELSE /\ pc' = "done"
                    /\ UNCHANGED <<attempts, next_id>>
       ELSE /\ pc' = "topup"
            /\ verified_questions' = IF verified # <<>>
                                     THEN Append(verified_questions, verified[1])
                                     ELSE verified_questions
            /\ next_id' = IF verified # <<>> THEN next_id + 1 ELSE next_id
            /\ attempts' = attempts + 1

\* the for loop of verify_questions goes on to the next question, or ends
NextQuestion(verified) ==
    IF ver.position < Len(ver.questions)
    THEN /\ ver' = VerifyQuestion(ver.caller, ver.questions, ver.position + 1, verified)
         /\ pc' = "verify"
         /\ UNCHANGED <<verified_questions, attempts, next_id>>
    ELSE ReturnVerified(ver.caller, verified)

\* main pass, lines 1343-1355: the next concept's question is asked for
MainGenerate(embedding) ==
    /\ pc = "main"
    /\ idx <= Len(concepts) /\ idx <= settings.question_count
    /\ IF embedding = EmbedFails THEN Raise
       ELSE /\ CallGenerate("main", concepts[idx], QuestionId(idx), QuestionType(idx),
                            embedding)
            /\ UNCHANGED <<others, select, reduce, settings, chunks, embeddings, concepts, idx, questions,
                           verified_questions, attempts, next_id, ver>>

\* lines 1285-1289: generate_question_for_concept returned question to
\* verify_questions, which takes it for current when it is valid
Regenerated(question, valid) ==
    /\ ver' = [ver EXCEPT !.current = IF valid THEN question ELSE @,
                          !.supported = IF valid THEN FALSE ELSE @,
                          !.regenerated = valid]
    /\ pc' = "verified"
    /\ UNCHANGED <<idx, questions, verified_questions, attempts, next_id>>

\* the loop of generate_question_for_concept with the loop condition
\* attempt <= settings.question_retries + 1
GeneratedOneMore(step) ==
    IF ~step.returned /\ gen.attempt + 1 <= settings.question_retries + 1
    THEN /\ gen' = [gen EXCEPT !.attempt = @ + 1, !.question = step.question]
         /\ UNCHANGED <<pc, idx, questions, verified_questions, attempts, next_id, ver>>
    ELSE /\ gen' = NoGenerate
         /\ CASE gen.caller = "main" ->
                   /\ questions' = Append(questions, step.question)
                   /\ idx' = idx + 1
                   /\ pc' = "main"
                   /\ UNCHANGED <<verified_questions, attempts, next_id, ver>>
              [] gen.caller = "verify" ->
                   Regenerated(step.question, Valid(step.question))
              [] gen.caller = "topup" ->
                   /\ ver' = VerifyQuestion("topup", <<step.question>>, 1, <<>>)
                   /\ pc' = "verify"
                   /\ UNCHANGED <<idx, questions, verified_questions, attempts, next_id>>

\* the loop of generate_question_for_concept after an iteration that left
\* step.question in question: it goes on, or the function returns to its caller
Generated(step) ==
    IF ~step.returned /\ gen.attempt + 1 <= settings.question_retries
    THEN /\ gen' = [gen EXCEPT !.attempt = @ + 1, !.question = step.question]
         /\ UNCHANGED <<pc, idx, questions, verified_questions, attempts, next_id, ver>>
    ELSE /\ gen' = NoGenerate
         /\ CASE gen.caller = "main" ->
                   /\ questions' = Append(questions, step.question)
                   /\ idx' = idx + 1
                   /\ pc' = "main"
                   /\ UNCHANGED <<verified_questions, attempts, next_id, ver>>
              [] gen.caller = "verify" ->
                   Regenerated(step.question, Valid(step.question))
              [] gen.caller = "topup" ->
                   /\ ver' = VerifyQuestion("topup", <<step.question>>, 1, <<>>)
                   /\ pc' = "verify"
                   /\ UNCHANGED <<idx, questions, verified_questions, attempts, next_id>>

\* one iteration of the loop of generate_question_for_concept, and the return
\* to the caller when it was the last
GenerateAttempt(data) ==
    /\ pc = "generate"
    /\ Generated(generate_attempt(settings, gen.question, data, gen.concept,
                                  gen.evidence_chunks, gen.question_id, gen.question_type))
    /\ UNCHANGED <<others, select, reduce, settings, chunks, embeddings, concepts>>

\* line 1359: verify_questions is called with the questions of the main pass
MainVerify ==
    /\ pc = "main"
    /\ ~(idx <= Len(concepts) /\ idx <= settings.question_count)
    /\ IF questions = <<>>
       THEN ReturnVerified("main", <<>>)
       ELSE /\ ver' = VerifyQuestion("main", questions, 1, <<>>)
            /\ pc' = "verify"
            /\ UNCHANGED <<verified_questions, attempts, next_id>>
    /\ UNCHANGED <<others, select, reduce, settings, chunks, embeddings, concepts, idx, questions, gen>>

\* an iteration of the while loop of verify_questions begins: the evidence
\* of current is looked up (lines 1188-1205)
VerifyEvidence(embedding) ==
    /\ pc = "verify"
    /\ IF embedding = EmbedFails THEN Raise
       ELSE /\ ver' = [ver EXCEPT !.evidence_chunks =
                          verify_evidence_chunks(ver.current, chunks, embeddings, embedding)]
            /\ pc' = "verify_chat"
            /\ UNCHANGED <<others, select, reduce, settings, chunks, embeddings, concepts, idx, questions,
                           verified_questions, attempts, next_id, gen>>

\* the while loop of verify_questions after an iteration: it goes on while
\* attempts <= settings.verify_retries, unless the iteration left it by break
Verified(step) ==
    /\ ver' = [ver EXCEPT !.current = step.current,
                          !.attempts = @ + step.added,
                          !.evidence_chunks = <<>>,
                          !.supported = step.supported,
                          !.rewritten = @ \/ step.rewritten]
    /\ pc' = IF step.break \/ ver.attempts + step.added > settings.verify_retries
             THEN "after_loop" ELSE "verify"

\* the rest of the iteration (lines 1206-1275): the verifier answers data
VerifyAttempt(data) ==
    /\ pc = "verify_chat"
    /\ IF ~data.is_object THEN Raise
       ELSE /\ Verified(verify_attempt(settings, ver.current, data, ver.evidence_chunks,
                                       chunks))
            /\ UNCHANGED <<others, select, reduce, settings, chunks, embeddings, concepts, idx, questions,
                           verified_questions, attempts, next_id, gen>>

\* lines 1277-1289: current is not valid and has a concept: it is regenerated
VerifyRegenerate(embedding) ==
    /\ pc = "after_loop"
    /\ ~Valid(ver.current)
    /\ ~no_concept_tag(ver.current)
    /\ regeneration_concept(ver.current, concepts) # <<>>
    /\ IF embedding = EmbedFails THEN Raise
       ELSE /\ CallGenerate("verify", regeneration_concept(ver.current, concepts)[1],
                            GetId(ver.current, "q"),
                            IF ver.current.id = NoKey THEN settings.question_types[1]
                                                      ELSE ver.current.type,
                            embedding)
            /\ UNCHANGED <<others, select, reduce, settings, chunks, embeddings, concepts, idx, questions,
                           verified_questions, attempts, next_id, ver>>

\* line 1278: current is not valid and has an empty list of concept tags
VerifyIndexError ==
    /\ pc = "after_loop"
    /\ ~Valid(ver.current)
    /\ no_concept_tag(ver.current)
    /\ Raise

\* lines 1292-1295: current passes _validate_question and is appended
VerifyAppend ==
    /\ pc \in {"after_loop", "verified"}
    /\ Valid(ver.current)
    /\ NextQuestion(Append(ver.verified, ver.current))
    /\ UNCHANGED <<others, select, reduce, settings, chunks, embeddings, concepts, idx, questions, gen>>

\* lines 1292-1294: current does not pass _validate_question and is dropped
VerifyDrop ==
    /\ pc \in {"after_loop", "verified"}
    /\ ~Valid(ver.current)
    /\ pc = "after_loop" =>
          /\ ~no_concept_tag(ver.current)
          /\ regeneration_concept(ver.current, concepts) = <<>>
    /\ NextQuestion(ver.verified)
    /\ UNCHANGED <<others, select, reduce, settings, chunks, embeddings, concepts, idx, questions, gen>>

\* a budget of the top-up loop that is one attempt larger
max_attempts_and_one == settings.question_count * (settings.question_retries + 2) + 1

\* settings.question_count * (settings.question_retries + 2)
max_attempts == settings.question_count * (settings.question_retries + 2)

\* top-up loop, lines 1372-1384: another candidate is asked for
TopupGenerate(embedding) ==
    /\ pc = "topup"
    /\ Len(verified_questions) < settings.question_count /\ attempts < max_attempts
    /\ IF embedding = EmbedFails THEN Raise
       ELSE /\ CallGenerate("topup", concepts[(attempts % Len(concepts)) + 1],
                            QuestionId(next_id), QuestionType(next_id), embedding)
            /\ UNCHANGED <<others, select, reduce, settings, chunks, embeddings, concepts, idx, questions,
                           verified_questions, attempts, next_id, ver>>

\* the top-up loop ends and run_pipeline returns verified_questions
TopupEnd ==
    /\ pc = "topup"
    /\ ~(Len(verified_questions) < settings.question_count /\ attempts < max_attempts)
    /\ pc' = "done"
    /\ UNCHANGED <<others, select, reduce, settings, chunks, embeddings, concepts, idx, questions, verified_questions,
                   attempts, next_id, gen, ver>>

Next ==
    \/ \E embedding \in EmbedAnswers : MainGenerate(embedding)
    \/ \E data \in GenerateAnswers : GenerateAttempt(data)
    \/ MainVerify
    \/ \E embedding \in EmbedAnswers : VerifyEvidence(embedding)
    \/ \E data \in VerifyAnswers : VerifyAttempt(data)
    \/ \E embedding \in EmbedAnswers : VerifyRegenerate(embedding)
    \/ VerifyIndexError
    \/ VerifyAppend
    \/ VerifyDrop
    \/ \E embedding \in EmbedAnswers : TopupGenerate(embedding)
    \/ TopupEnd

Spec == Init /\ [][Next]_vars

(***************************************************************************)
(* Properties of the questions verify_questions returns and run_pipeline   *)
(* puts out.                                                               *)
(***************************************************************************)

\* the questions accepted so far: verified of the running verify_questions
\* (line 1295) after verified_questions of run_pipeline (lines 1359, 1393)
Accepted == verified_questions \o ver.verified
AcceptedSet == {Accepted[i] : i \in 1..Len(Accepted)}

\* this step appends a question to the accepted ones (line 1295)
Appended ==
    Len(verified_questions') + Len(ver'.verified) > Len(verified_questions) + Len(ver.verified)

\* the ids of the chunks the pipeline runs on
ChunkIds == {chunks[i].chunk_id : i \in 1..Len(chunks)}

\* the question verify_questions was given where it now holds current
Proposed == ver.questions[ver.position]

\* C1: a question whose every verify attempt ended unsupported, and which
\* no rewrite and no regeneration replaced, is dropped: verify_questions
\* does not append it to the list it returns
UnsupportedIsDropped ==
    [][(/\ pc \in {"after_loop", "verified"}
        /\ ~ver.supported /\ ~ver.rewritten /\ ~ver.regenerated) => ~Appended]_vars

\* C2: every accepted question passes _validate_question: its type is one of
\* the configured types, question, answer and rationale are not empty, it
\* has a citation and a quote, and every quote has 20 to 80 characters
AcceptedPassGate ==
    \A q \in AcceptedSet :
        /\ Valid(q)
        /\ \E t \in 1..Len(settings.question_types) :
               Lower(settings.question_types[t]) = Lower(q.type)
        /\ q.question # <<>> /\ q.answer # <<>> /\ q.rationale # <<>>
        /\ q.citations # <<>>
        /\ q.evidence_quotes # <<>>
        /\ \A i \in 1..Len(q.evidence_quotes) :
               Len(q.evidence_quotes[i].quote) >= 20 /\ Len(q.evidence_quotes[i].quote) <= 80

\* run_pipeline has returned a question that its top-up loop added
TopUpQuestionReturned ==
    pc = "done" /\ verified_questions # <<>> /\ attempts > 0

\* C3: every evidence quote of an accepted question is a substring of the
\* text of the chunk it names
QuotesAreVerbatim ==
    \A q \in AcceptedSet : \A i \in 1..Len(q.evidence_quotes) :
        \E k \in 1..Len(chunks) :
            /\ chunks[k].chunk_id = q.evidence_quotes[i].chunk_id
            /\ HasSub(chunks[k].text, q.evidence_quotes[i].quote)

\* C4: an accepted question has citations, and each names a chunk of the
\* chunk set the pipeline runs on, whatever the responses cited
CitationsInChunkSet ==
    \A q \in AcceptedSet :
        /\ q.citations # <<>>
        /\ \A i \in 1..Len(q.citations) : q.citations[i].chunk_id \in ChunkIds

\* run_pipeline has returned a question although every citation of every
\* response names a chunk that is not in the chunk set
ReturnedDespiteForeignCitations ==
    /\ pc = "done" /\ verified_questions # <<>>
    /\ \A r \in QuestionObjects \cup RevisedObjects :
           \A i \in 1..Len(r.citations) : r.citations[i].chunk_id \notin ChunkIds

\* C5: a question that a rewrite or a regeneration put in place is appended
\* only if a verify attempt made after that judged it supported
ReplacedIsVerifiedAgain ==
    [][(/\ pc \in {"after_loop", "verified"}
        /\ (ver.rewritten \/ ver.regenerated)
        /\ Appended) => ver.supported]_vars

\* C6: an accepted mcq has four choices, the i-th beginning with its letter
\* and a space, a correct_option among A, B, C, D, and that for answer
McqWellFormed ==
    \A q \in AcceptedSet :
        q.type = T_mcq =>
            /\ Len(q.choices) = 4
            /\ \A i \in 1..4 : StartsWith(q.choices[i], <<64 + i, 32>>)
            /\ q.correct_option \in {<<65>>, <<66>>, <<67>>, <<68>>}
            /\ q.answer = q.correct_option

\* run_pipeline has returned an mcq
McqReturned ==
    pc = "done" /\ \E i \in 1..Len(verified_questions) : verified_questions[i].type = T_mcq

\* C7: an accepted tf has the answer "true" or "false", and its text is no
\* question: it does not end in a question mark and _is_question_sentence
\* (question mark, interrogative particle, yes/no question word) rejects it
TfWellFormed ==
    \A q \in AcceptedSet :
        q.type = T_tf =>
            /\ q.answer \in {T_true, T_false}
            /\ ~is_question_sentence(q.question)
            /\ q.question # <<>> /\ q.question[Len(q.question)] \notin {63, 65311}

\* run_pipeline has returned a tf
TfReturned ==
    pc = "done" /\ \E i \in 1..Len(verified_questions) : verified_questions[i].type = T_tf

\* an iteration of generate_question_for_concept that is asked for an mcq
\* and gets a banned choice does not return
BannedNotReturned(step) ==
    (gen.question_type = T_mcq /\ has_banned_mcq_choice(step.question.choices))
        => ~step.returned

\* C8: an mcq with an "all of the above" choice is rejected: the iteration
\* of generate_question_for_concept does not return it, the verify attempt
\* on it ends unsupported, and no accepted question has such a choice
BannedChoiceRejected ==
    /\ pc = "generate" =>
           \A data \in GenerateAnswers :
               BannedNotReturned(generate_attempt(settings, gen.question, data, gen.concept,
                                                  gen.evidence_chunks, gen.question_id,
                                                  gen.question_type))
    /\ (/\ pc = "verify_chat"
        /\ ver.current.type = T_mcq /\ has_banned_mcq_choice(ver.current.choices)) =>
           ~verify_supported(ver.current, TRUE, ver.evidence_chunks, chunks)
    /\ \A q \in AcceptedSet : ~has_banned_mcq_choice(q.choices)

\* an iteration of generate_question_for_concept that leaves a meta-question
\* does not return
MetaNotReturned(step) == is_meta_question(step.question.question) => ~step.returned

\* C9: a meta-question is rejected at generation, the attempt is used up,
\* and no accepted question is one, rewrites of the verifier included
MetaRejected ==
    /\ pc = "generate" =>
           \A data \in GenerateAnswers :
               MetaNotReturned(generate_attempt(settings, gen.question, data, gen.concept,
                                                gen.evidence_chunks, gen.question_id,
                                                gen.question_type))
    /\ \A q \in AcceptedSet : ~is_meta_question(q.question)

\* generate_question_for_concept has used an attempt on a meta-question and
\* tries again
MetaRetried ==
    pc = "generate" /\ gen.attempt = 1 /\ is_meta_question(gen.question.question)

\* C10: a regeneration in verify_questions is for the concept, the id and
\* the type of the question that was proposed, also after rewrites
RegeneratesProposed ==
    (pc = "generate" /\ gen.caller = "verify" /\ Proposed.id # NoKey) =>
        /\ gen.question_id = Proposed.id
        /\ gen.question_type = Proposed.type
        /\ gen.concept.name = Proposed.concept_tags[1]

(***************************************************************************)
(* Properties of the retry budgets and of the ways verify_questions,       *)
(* generate_question_for_concept and the top-up loop end.                  *)
(***************************************************************************)

\* this step ends the for loop body of verify_questions on current without
\* appending it (lines 1292-1294)
Dropped ==
    /\ pc \in {"after_loop", "verified"}
    /\ pc' \in {"verify", "topup", "done"}
    /\ ~Appended

\* C11: a question is dropped only after generate_question_for_concept was
\* called for it (lines 1282-1289) and its result failed _validate_question
RegeneratedBeforeDrop ==
    [][Dropped => (pc = "verified" /\ ~ver.regenerated /\ ~Valid(ver.current))]_vars

\* lines 1277-1280: current fails _validate_question and its first concept
\* tag names a concept, so generate_question_for_concept is to be called
RegenerationDue ==
    /\ ~Valid(ver.current)
    /\ ~no_concept_tag(ver.current)
    /\ regeneration_concept(ver.current, concepts) # <<>>

\* C12: for each question verify_questions makes at most verify_retries + 1
\* verify attempts, each attempt that does not leave the loop adds one to
\* attempts, at most one regeneration is made, and the question then ends
\* in one of two ways: it is appended to verified or it is dropped
VerifyEndsAcceptedOrDropped ==
    /\ [](pc \in {"verify", "verify_chat"} => ver.attempts <= settings.verify_retries)
    /\ [][(pc = "verify_chat" /\ pc' = "verify") => ver'.attempts = ver.attempts + 1]_vars
    /\ [][pc = "verified" => pc' # "generate"]_vars
    /\ [][(pc = "verified" \/ (pc = "after_loop" /\ ~RegenerationDue))
              => (Appended \/ Dropped)]_vars

\* an iteration of generate_question_for_concept returns its question
\* exactly when the question passes _validate_question (lines 1164-1165)
ReturnsIffValid(step) == step.returned <=> Valid(step.question)

\* the question a call of generate_question_for_concept that ends with this
\* step hands to its caller passes _validate_question
ReturnsValid ==
    CASE gen.caller = "main" -> Valid(questions'[Len(questions')])
      [] gen.caller = "topup" -> Valid(ver'.current)
      [] gen.caller = "verify" -> ver'.regenerated /\ Valid(ver'.current)
      [] OTHER -> FALSE

\* C13: a call of generate_question_for_concept makes at most
\* question_retries + 1 generation calls: an attempt that does not return
\* leaves an invalid question and adds one to attempt, whatever failed, and
\* the call returns at the first attempt whose question passes the gate
GenerateWithinBudget ==
    /\ [](pc = "generate" =>
             /\ gen.attempt <= settings.question_retries
             /\ \A data \in GenerateAnswers :
                    ReturnsIffValid(generate_attempt(settings, gen.question, data,
                                                     gen.concept, gen.evidence_chunks,
                                                     gen.question_id, gen.question_type)))
    /\ [][(pc = "generate" /\ pc' = "generate") =>
              (gen'.attempt = gen.attempt + 1 /\ ~Valid(gen'.question))]_vars
    /\ [][(pc = "generate" /\ pc' # "generate" /\ gen.attempt < settings.question_retries)
              => ReturnsValid]_vars

\* a call has used its question_retries + 1 attempts and returned a question
\* that does not pass the gate to the main pass
GenerateBudgetUsedUp ==
    /\ settings.question_retries > 0
    /\ pc = "main" /\ questions # <<>> /\ ~Valid(questions[Len(questions)])

\* the top-up loop of run_pipeline is running (lines 1372-1395)
InTopup == pc = "topup" \/ gen.caller = "topup" \/ ver.caller = "topup"

\* C14: the top-up loop runs an attempt only while fewer than question_count
\* questions are accepted, makes at most question_count * (question_retries
\* + 2) attempts, asks for concepts[attempts mod len(concepts)] in the
\* attempt numbered attempts from 0, ends as soon as question_count
\* questions are accepted, and run_pipeline returns at most question_count
\* questions
TopupWithinBudget ==
    /\ [](/\ attempts <= settings.question_count * (settings.question_retries + 2)
          /\ Len(verified_questions) <= settings.question_count)
    /\ []((InTopup /\ pc # "topup") =>
             /\ Len(verified_questions) < settings.question_count
             /\ attempts < settings.question_count * (settings.question_retries + 2))
    /\ []((pc = "generate" /\ gen.caller = "topup") =>
             gen.concept = concepts[(attempts % Len(concepts)) + 1])
    /\ [][(pc = "topup" /\ Len(verified_questions) >= settings.question_count)
              => pc' = "done"]_vars
    /\ [][(InTopup /\ attempts' # attempts /\ pc' # "raised") => attempts' = attempts + 1]_vars

\* run_pipeline has returned fewer than question_count questions after a
\* top-up loop that used all its attempts and went round the concepts
TopupBudgetUsedUp ==
    /\ pc = "done"
    /\ attempts = settings.question_count * (settings.question_retries + 2)
    /\ attempts > Len(concepts)
    /\ Len(concepts) > 1
    /\ Len(verified_questions) < settings.question_count

(***************************************************************************)
(* run_pipeline with a backend that answers every QUESTION_PROMPT with a   *)
(* question that passes _validate_question, every VERIFY_PROMPT with       *)
(* supported true, and every embed call with a vector; two questions are   *)
(* asked for and the extractor found one concept, or two.                  *)
(***************************************************************************)

\* settings.question_count of these runs
GoodQuestionCount == 2

RunsGood ==
    { [document |-> <<ChunkSense, ChunkPlan, ChunkNoise>>,
       concepts |-> <<ConceptAgent>>,
       settings |-> [SettingsOf(<<T_tf, T_mcq>>) EXCEPT !.question_count = GoodQuestionCount]],
      [document |-> <<ChunkPlan, ChunkNoise>>,
       concepts |-> <<ConceptPlan, ConceptAgent>>,
       settings |-> [SettingsOf(<<T_tf>>) EXCEPT !.question_count = GoodQuestionCount]] }

\* verify responses that say supported, with or without a revised_question
SupportedAnswers ==
    [is_object : {TRUE}, supported : {TRUE},
     revised : {<<>>} \cup {<<r>> : r \in {GoodTf, Moved, BannedMcq}}]

InitGood ==
    /\ \E run \in RunsGood :
          /\ settings = run.settings
          /\ chunks = pipeline_chunks(run.document)
          /\ embeddings = [i \in 1..Len(chunks) |-> ChunkEmbedding(chunks[i])]
          /\ concepts = run.concepts
    /\ pc = "main"
    /\ idx = 1
    /\ questions = <<>>
    /\ verified_questions = <<>>
    /\ attempts = 0
    /\ next_id = 0
    /\ gen = NoGenerate
    /\ ver = NoVerify
    /\ select = NoSelect
    /\ reduce = NoReduce
    /\ RestIdle

\* the generation response data makes this iteration return a valid question
GoodResponse(data) ==
    /\ pc = "generate"
    /\ generate_attempt(settings, gen.question, data, gen.concept, gen.evidence_chunks,
                        gen.question_id, gen.question_type).returned

NextGood ==
    \/ \E embedding \in QueryEmbeddings : MainGenerate(embedding)
    \/ \E data \in GenerateAnswers : GoodResponse(data) /\ GenerateAttempt(data)
    \/ MainVerify
    \/ \E embedding \in QueryEmbeddings : VerifyEvidence(embedding)
    \/ \E data \in SupportedAnswers : VerifyAttempt(data)
    \/ \E embedding \in QueryEmbeddings : VerifyRegenerate(embedding)
    \/ VerifyIndexError
    \/ VerifyAppend
    \/ VerifyDrop
    \/ \E embedding \in QueryEmbeddings : TopupGenerate(embedding)
    \/ TopupEnd

SpecGood == InitGood /\ [][NextGood]_vars

\* C15: with a concept list that is not empty, generation responses that
\* all give a valid question and verify responses that all say supported,
\* run_pipeline returns at least question_count questions, also when there
\* are fewer concepts than question_count
GoodBackendMeetsCount ==
    pc = "done" => Len(verified_questions) >= settings.question_count

(***************************************************************************)
(* run_pipeline asked for two questions, with the two concepts             *)
(* extract_concepts found: the top-up loop goes round the concepts.  The   *)
(* backend answers a QUESTION_PROMPT with a valid tf, a valid mcq or {},   *)
(* and a VERIFY_PROMPT with supported true, or with supported false and no *)
(* rewrite or a rewrite that is a meta-question.                           *)
(***************************************************************************)

TopupRuns ==
    { [document |-> <<ChunkSense, ChunkPlan, ChunkNoise>>,
       concepts |-> <<ConceptAgent, ConceptPlan>>,
       settings |-> [SettingsOf(<<T_tf, T_mcq>>) EXCEPT !.question_count = GoodQuestionCount]],
      [document |-> <<ChunkPlan, ChunkNoise>>,
       concepts |-> <<ConceptPlan, ConceptAgent>>,
       settings |-> [SettingsOf(<<T_tf>>) EXCEPT !.question_count = GoodQuestionCount]] }

TopupGenerateAnswers == [is_object : {TRUE}, obj : {GoodTf, GoodMcq, EmptyRaw}]

TopupVerifyAnswers ==
    [is_object : {TRUE}, supported : {FALSE}, revised : {<<>>, <<MetaTf>>}]
    \cup {[is_object |-> TRUE, supported |-> TRUE, revised |-> <<>>]}

TopupEmbeddings == { <<2, 1>> }

InitTopup ==
    /\ \E run \in TopupRuns :
          /\ settings = run.settings
          /\ chunks = pipeline_chunks(run.document)
          /\ embeddings = [i \in 1..Len(chunks) |-> ChunkEmbedding(chunks[i])]
          /\ concepts = run.concepts
    /\ pc = "main"
    /\ idx = 1
    /\ questions = <<>>
    /\ verified_questions = <<>>
    /\ attempts = 0
    /\ next_id = 0
    /\ gen = NoGenerate
    /\ ver = NoVerify
    /\ select = NoSelect
    /\ reduce = NoReduce
    /\ RestIdle

NextTopup ==
    \/ \E embedding \in TopupEmbeddings : MainGenerate(embedding)
    \/ \E data \in TopupGenerateAnswers : GenerateAttempt(data)
    \/ MainVerify
    \/ \E embedding \in TopupEmbeddings : VerifyEvidence(embedding)
    \/ \E data \in TopupVerifyAnswers : VerifyAttempt(data)
    \/ \E embedding \in TopupEmbeddings : VerifyRegenerate(embedding)
    \/ VerifyIndexError
    \/ VerifyAppend
    \/ VerifyDrop
    \/ \E embedding \in TopupEmbeddings : TopupGenerate(embedding)
    \/ TopupEnd

SpecTopup == InitTopup /\ [][NextTopup]_vars

(***************************************************************************)
(* reduce_summarize (lines 892-955): the attempts of the generator and the *)
(* fallback synthesizer.  A step is an iteration of the while loop, or the *)
(* call of _build_summary_block_from_mini.                                 *)
(***************************************************************************)

\* "Learning agents adjust their policy from feedback"
TextLearn ==
    <<76, 101, 97, 114, 110, 105, 110, 103, 32, 97, 103, 101, 110, 116,
      115, 32, 97, 100, 106, 117, 115, 116, 32, 116, 104, 101, 105, 114,
      32, 112, 111, 108, 105, 99, 121, 32, 102, 114, 111, 109, 32, 102,
      101, 101, 100, 98, 97, 99, 107>>
\* "Planning needs a model of the world to work"
TextModel ==
    <<80, 108, 97, 110, 110, 105, 110, 103, 32, 110, 101, 101, 100, 115,
      32, 97, 32, 109, 111, 100, 101, 108, 32, 111, 102, 32, 116, 104, 101,
      32, 119, 111, 114, 108, 100, 32, 116, 111, 32, 119, 111, 114, 107>>
\* "A reward signal tells the agent how well it acts"
TextReward ==
    <<65, 32, 114, 101, 119, 97, 114, 100, 32, 115, 105, 103, 110, 97, 108,
      32, 116, 101, 108, 108, 115, 32, 116, 104, 101, 32, 97, 103, 101,
      110, 116, 32, 104, 111, 119, 32, 119, 101, 108, 108, 32, 105, 116,
      32, 97, 99, 116, 115>>
\* "Agents act U+3002 They sense"
SummarySense ==
    <<65, 103, 101, 110, 116, 115, 32, 97, 99, 116, 12290, 84, 104, 101,
      121, 32, 115, 101, 110, 115, 101>>
\* "Plans help U+FF1B Models matter"
SummaryPlan ==
    <<80, 108, 97, 110, 115, 32, 104, 101, 108, 112, 65307, 77, 111, 100,
      101, 108, 115, 32, 109, 97, 116, 116, 101, 114>>
\* "Learning adapts U+3002 Rewards guide"
SummaryLearn ==
    <<76, 101, 97, 114, 110, 105, 110, 103, 32, 97, 100, 97, 112, 116, 115,
      12290, 82, 101, 119, 97, 114, 100, 115, 32, 103, 117, 105, 100, 101>>
\* "Models predict"
SummaryModel ==
    <<77, 111, 100, 101, 108, 115, 32, 112, 114, 101, 100, 105, 99, 116>>
\* "Agents"
TitleAgents ==
    <<65, 103, 101, 110, 116, 115>>
\* "Plans"
TitlePlans ==
    <<80, 108, 97, 110, 115>>
\* "Learning"
TitleLearning ==
    <<76, 101, 97, 114, 110, 105, 110, 103>>
\* "Agents act U+3002 Plans help"
OverviewGood ==
    <<65, 103, 101, 110, 116, 115, 32, 97, 99, 116, 12290, 80, 108, 97,
      110, 115, 32, 104, 101, 108, 112>>

\* further chunks, on pages 4, 5 and 6
ChunkLearn == [chunk_id |-> "p4_c1", page |-> 4, section_title |-> <<>>, text |-> TextLearn]
ChunkModel == [chunk_id |-> "p5_c1", page |-> 5, section_title |-> <<>>, text |-> TextModel]
ChunkReward == [chunk_id |-> "p6_c1", page |-> 6, section_title |-> <<>>, text |-> TextReward]

\* the mini summaries map_summarize made of the chunks
MiniSense == [chunk_id |-> "p1_c1", page |-> 1, mini_summary |-> SummarySense]
MiniPlan == [chunk_id |-> "p2_c1", page |-> 2, mini_summary |-> SummaryPlan]
MiniLearn == [chunk_id |-> "p4_c1", page |-> 4, mini_summary |-> SummaryLearn]
MiniModel == [chunk_id |-> "p5_c1", page |-> 5, mini_summary |-> SummaryModel]

\* JSON objects the chat model answers to REDUCE_SUMMARY_PROMPT
CitesSenseAndPlan ==
    <<[page |-> <<1>>, chunk_id |-> "p1_c1", chunkId |-> NoKey],
      [page |-> <<2>>, chunk_id |-> "p2_c1", chunkId |-> NoKey]>>
GoodReduce ==
    [is_object |-> TRUE, overview |-> OverviewGood,
     sections |-> <<[title |-> TitleAgents, summary |-> SummarySense,
                     citations |-> CitesSenseAndPlan],
                    [title |-> TitlePlans, summary |-> SummaryPlan,
                     citations |-> CitesSenseAndPlan],
                    [title |-> TitleLearning, summary |-> SummaryLearn,
                     citations |-> CitesSenseAndPlan]>>,
     keypoints |-> <<TitleAgents, TitlePlans, TitleLearning, TextModel, TextReward>>]
\* three sections without citations, the first without title
UncitedReduce ==
    [GoodReduce EXCEPT !.sections[1].title = <<>>, !.sections[1].citations = <<>>,
                       !.sections[2].citations = <<>>, !.sections[3].citations = <<>>]
\* one section, no overview, no keypoints
ThinReduce ==
    [is_object |-> TRUE, overview |-> <<>>,
     sections |-> <<[title |-> <<>>, summary |-> SummaryModel, citations |-> <<>>]>>,
     keypoints |-> <<>>]
\* {}, which is also what an exception of the call leaves
EmptyReduce == [is_object |-> TRUE, overview |-> <<>>, sections |-> <<>>, keypoints |-> <<>>]

\* what chat_json answers in reduce_summarize: an object, or a JSON value
\* that is no object
ReduceAnswers ==
    { GoodReduce, UncitedReduce, ThinReduce, EmptyReduce,
      [EmptyReduce EXCEPT !.is_object = FALSE] }

\* what client.embed answers to the calls of one step
EmbedScripts == { << <<2, 1>> >>, << <<1, 2>> >>, << <<1, 2>>, <<2, 1>> >>,
                  << <<2, 1>>, EmbedFails >>, << EmbedFails >> }

\* the largest settings.summary_retries of a run
MaxSummaryRetries == 2

\* the mini summary map_summarize appends for the first chunk when the chat
\* call raised or answered no mini_summary: the head of the chunk's text
MiniSenseHead ==
    [chunk_id |-> "p1_c1", page |-> 1, mini_summary |-> text_head(TextSense, MiniHeadChars)]

\* the calls of reduce_summarize: the chunks of the PDF, the chunks
\* _select_chunk_set selected and the mini summaries of map_summarize, one
\* for every selected chunk
ReduceRuns ==
    { [document |-> <<ChunkSense, ChunkPlan, ChunkLearn>>,
       selected_chunks |-> <<ChunkSense, ChunkPlan, ChunkLearn>>,
       mini_summaries |-> <<MiniSense, MiniPlan, MiniLearn>>],
      [document |-> <<ChunkSense, ChunkPlan, ChunkLearn, ChunkModel>>,
       selected_chunks |-> <<ChunkSense, ChunkPlan, ChunkLearn, ChunkModel>>,
       mini_summaries |-> <<MiniSense, MiniPlan, MiniLearn, MiniModel>>],
      [document |-> <<ChunkSense, ChunkPlan, ChunkLearn, ChunkModel, ChunkReward>>,
       selected_chunks |-> <<ChunkPlan>>,
       mini_summaries |-> <<MiniPlan>>],
      [document |-> <<ChunkSense>>,
       selected_chunks |-> <<ChunkSense>>,
       mini_summaries |-> <<MiniSense>>],
      [document |-> <<ChunkSense>>,
       selected_chunks |-> <<ChunkSense>>,
       mini_summaries |-> <<MiniSenseHead>>] }

\* run_pipeline is at line 1338 and reduce_summarize at the head of its loop
InitReduce ==
    /\ \E run \in ReduceRuns :
          /\ chunks = pipeline_chunks(run.document)
          /\ embeddings = [i \in 1..Len(chunks) |-> ChunkEmbedding(chunks[i])]
          /\ reduce = [NoReduce EXCEPT !.state = "loop",
                                       !.mini_summaries = run.mini_summaries,
                                       !.selected_chunks = run.selected_chunks]
    /\ \E summary_retries \in 0..MaxSummaryRetries :
          settings = [summary_retries |-> summary_retries]
    /\ concepts = <<>>
    /\ pc = "reduce"
    /\ idx = 0
    /\ questions = <<>>
    /\ verified_questions = <<>>
    /\ attempts = 0
    /\ next_id = 0
    /\ gen = NoGenerate
    /\ ver = NoVerify
    /\ select = NoSelect
    /\ RestIdle

\* an exception leaves reduce_summarize and run_pipeline
ReduceRaise ==
    /\ pc' = "raised"
    /\ reduce' = NoReduce

\* _validate_summary_block with the floors of lines 915-916
BlockValid(summary_block) ==
    validate_summary_block(summary_block, min_unique_pages_of(reduce.selected_chunks),
                           min_citations_of(reduce.selected_chunks))

\* Reduced with a loop that goes on while attempts <= summary_retries + 1
ReducedOnceMore(step) ==
    IF step.raised THEN ReduceRaise
    ELSE IF BlockValid(step.out)
    THEN /\ reduce' = [reduce EXCEPT !.state = "returned", !.calls = @ + 1,
                                     !.summary_block = step.out]
         /\ pc' = "concepts"
    ELSE /\ reduce' = [reduce EXCEPT !.state = IF reduce.attempts + 1 <= settings.summary_retries + 1
                                               THEN "loop" ELSE "fallback",
                                     !.attempts = @ + 1, !.calls = @ + 1,
                                     !.summary_block = step.out]
         /\ pc' = pc

\* lines 941-944: the block of the attempt is returned when it passes the
\* gate; otherwise the loop goes on while attempts <= summary_retries and
\* the fallback is next when it ends
Reduced(step) ==
    IF step.raised THEN ReduceRaise
    ELSE IF BlockValid(step.out)
    THEN /\ reduce' = [reduce EXCEPT !.state = "returned", !.calls = @ + 1,
                                     !.summary_block = step.out]
         /\ pc' = "concepts"
    ELSE /\ reduce' = [reduce EXCEPT !.state = IF reduce.attempts + 1 <= settings.summary_retries
                                               THEN "loop" ELSE "fallback",
                                     !.attempts = @ + 1, !.calls = @ + 1,
                                     !.summary_block = step.out]
         /\ pc' = pc

\* an iteration of the while loop of reduce_summarize: the chat model
\* answers data and client.embed answers embeds
ReduceAttempt(data, embeds) ==
    /\ pc = "reduce" /\ reduce.state = "loop"
    /\ IF ~data.is_object THEN ReduceRaise
       ELSE Reduced(reduce_attempt(data, reduce.mini_summaries, reduce.selected_chunks,
                                   chunks, embeddings, embeds, 0))
    /\ UNCHANGED <<others, select, settings, chunks, embeddings, concepts, idx, questions,
                   verified_questions, attempts, next_id, gen, ver>>

\* _build_summary_block_from_mini returned its block, which reduce_summarize
\* returns as it is (lines 947-955)
FellBack(step) ==
    IF step.raised THEN ReduceRaise
    ELSE /\ reduce' = [reduce EXCEPT !.state = "returned", !.fallback = TRUE,
                                     !.summary_block = step.out]
         /\ pc' = "concepts"

\* lines 946-955: the fallback synthesizer is called
ReduceFallback(embeds) ==
    /\ pc = "reduce" /\ reduce.state = "fallback"
    /\ FellBack(build_summary_block_from_mini(reduce.mini_summaries, reduce.selected_chunks,
                                              chunks, embeddings, embeds, 0))
    /\ UNCHANGED <<others, select, settings, chunks, embeddings, concepts, idx, questions,
                   verified_questions, attempts, next_id, gen, ver>>

NextReduce ==
    \/ \E data \in ReduceAnswers : \E embeds \in EmbedScripts : ReduceAttempt(data, embeds)
    \/ \E embeds \in EmbedScripts : ReduceFallback(embeds)

SpecReduce == InitReduce /\ [][NextReduce]_vars

(***************************************************************************)
(* Properties of reduce_summarize and of the fallback synthesizer.         *)
(***************************************************************************)

\* an exception of chat_json leaves data = {}, whose block has no sections
ExceptionFailsGate ==
    \A embeds \in EmbedScripts :
        ~BlockValid(reduce_attempt(EmptyReduce, reduce.mini_summaries, reduce.selected_chunks,
                                   chunks, embeddings, embeds, 0).out)

\* C16: reduce_summarize calls the chat model at most summary_retries + 1
\* times, one call per iteration; the block of the first attempt that passes
\* _validate_summary_block is returned and nothing is called after it; the
\* fallback synthesizer is called exactly when summary_retries + 1 attempts
\* have failed the gate, and an exception of the chat call is such a failed
\* attempt.
ReduceWithinBudget ==
    /\ [](reduce.state # "none" => reduce.calls <= settings.summary_retries + 1)
    /\ [][(reduce'.state # "none" /\ reduce'.calls # reduce.calls) =>
            (reduce.state = "loop" /\ reduce'.calls = reduce.calls + 1)]_vars
    /\ [][(reduce.state = "loop" /\ reduce'.state # "none") =>
            IF BlockValid(reduce'.summary_block)
            THEN reduce'.state = "returned" /\ ~reduce'.fallback
            ELSE reduce'.state \in {"loop", "fallback"}]_vars
    /\ [][reduce.state = "returned" => reduce' = reduce]_vars
    /\ [](reduce.state = "fallback" <=>
            (/\ pc = "reduce"
             /\ reduce.calls = settings.summary_retries + 1
             /\ ~BlockValid(reduce.summary_block)))
    /\ [](reduce.fallback => reduce.calls = settings.summary_retries + 1)
    /\ [](reduce.state = "loop" => ExceptionFailsGate)

\* the fallback block was returned after summary_retries + 1 failed attempts
ReduceBudgetUsedUp ==
    /\ reduce.state = "returned" /\ reduce.fallback
    /\ settings.summary_retries >= 1
    /\ reduce.calls = settings.summary_retries + 1

\* _build_summary_block_from_mini on the mini summaries and selected chunks
\* of the call, client.embed answering embeds from its call used + 1 on
FallbackAt(embeds, used) ==
    build_summary_block_from_mini(reduce.mini_summaries, reduce.selected_chunks,
                                  chunks, embeddings, embeds, used)

\* the call returned a block that passes the gate, or client.embed raised
GatePassed(step) == step.raised \/ BlockValid(step.out)

TwiceValid(first, embeds) ==
    /\ GatePassed(first)
    /\ first.raised \/ GatePassed(FallbackAt(embeds, first.used))

\* C17: two calls of _build_summary_block_from_mini, one after the other, on
\* the same mini summaries and the same selected chunks both return a block
\* that passes _validate_summary_block with the floors of the selected
\* chunks' pages.
FallbackPassesGateTwice ==
    reduce.state # "none" =>
        \A embeds \in EmbedScripts : TwiceValid(FallbackAt(embeds, 0), embeds)

\* the block has an overview, three sections and five keypoints, and its
\* sections have a title, a summary and a citation
WellFormed(summary_block) ==
    /\ summary_block.overview # <<>>
    /\ Len(summary_block.sections) >= 3
    /\ Len(summary_block.keypoints) >= 5
    /\ \A s \in 1..Len(summary_block.sections) :
          /\ summary_block.sections[s].title # <<>>
          /\ summary_block.sections[s].summary # <<>>
          /\ summary_block.sections[s].citations # <<>>

\* C18: the block reduce_summarize returns, from an attempt or from the
\* fallback synthesizer, has a non-empty overview, at least 3 sections and at
\* least 5 keypoints, and each of its sections has a non-empty title, a
\* non-empty summary and at least one citation.
ReturnedBlockWellFormed ==
    reduce.state = "returned" => WellFormed(reduce.summary_block)

\* C19: in a block of the fallback synthesizer that has a section, at least
\* 60% of the pages of the selected chunks are the page of a citation of
\* some section.
FallbackCoversPages ==
    (/\ reduce.state = "returned" /\ reduce.fallback
     /\ reduce.summary_block.sections # <<>>) =>
        10 * Cardinality(PagesOf(reduce.selected_chunks)
                            \cap covered_pages(reduce.summary_block.sections))
            >= 6 * Cardinality(PagesOf(reduce.selected_chunks))

(***************************************************************************)
(* select_chunks (retrieval.py, lines 47-107) as _select_chunk_set calls   *)
(* it: one step from the call to its return.                               *)
(***************************************************************************)

\* "INTRO"
TitleIntro == <<73, 78, 84, 82, 79>>
\* "page_1", the bucket of the untitled chunks of page 1
TitlePageOne == <<112, 97, 103, 101, 95, 49>>

\* chunks under a section title
ChunkIntro == [chunk_id |-> "p7_c1", page |-> 7, section_title |-> TitleIntro, text |-> TextLearn]
ChunkIntroNext == [chunk_id |-> "p7_c2", page |-> 7, section_title |-> TitleIntro, text |-> TextModel]
ChunkIntroLast == [chunk_id |-> "p8_c1", page |-> 8, section_title |-> TitleIntro, text |-> TextReward]
ChunkPageOne == [chunk_id |-> "p9_c1", page |-> 9, section_title |-> TitlePageOne, text |-> TextLearn]

\* the chunk lists select_chunks is called with; the embeddings are those
\* of ChunkEmbedding
SelectRuns ==
    { <<ChunkIntro, ChunkIntroNext, ChunkIntroLast, ChunkSense>>,
      <<ChunkSense, ChunkIntro, ChunkPlan, ChunkIntroNext, ChunkIntroLast>>,
      <<ChunkSense, ChunkPlan, ChunkLearn, ChunkModel>>,
      <<ChunkPlan, ChunkSense, ChunkPageOne, ChunkSense>>,
      <<ChunkIntro, ChunkIntroNext, ChunkIntroLast>>,
      <<ChunkIntro, ChunkSense, ChunkIntroNext, ChunkPlan>>,
      <<ChunkLearn, ChunkModel, ChunkIntroLast, ChunkIntro, ChunkSense>>,
      <<ChunkPlan, ChunkIntro, ChunkIntroNext>>,
      <<ChunkIntro, ChunkIntroNext, ChunkPageOne, ChunkSense, ChunkPlan>>,
      <<ChunkSense, ChunkPlan>>,
      <<ChunkSense>>,
      <<>> }

\* the largest top_k of a call
MaxTopK == 4

\* select_chunks is called (balanced is True, its default)
InitSelect ==
    /\ \E document \in SelectRuns :
          /\ chunks = document
          /\ embeddings = [i \in 1..Len(document) |-> ChunkEmbedding(document[i])]
    /\ \E top_k \in 0..MaxTopK : select = [NoSelect EXCEPT !.state = "call", !.top_k = top_k]
    /\ settings = [summary_retries |-> 0]
    /\ reduce = NoReduce
    /\ RestIdle
    /\ concepts = <<>>
    /\ pc = "select"
    /\ idx = 0
    /\ questions = <<>>
    /\ verified_questions = <<>>
    /\ attempts = 0
    /\ next_id = 0
    /\ gen = NoGenerate
    /\ ver = NoVerify

\* select_chunks has returned the chunks at the positions step.out.picked,
\* or client.embed raised
Selected(step) ==
    IF step.raised
    THEN /\ select' = NoSelect
         /\ pc' = "raised"
    ELSE /\ select' = [select EXCEPT !.state = "returned",
                                     !.scored = step.out.scored,
                                     !.picked = step.out.picked,
                                     !.selected = [i \in 1..Len(step.out.picked) |->
                                                      chunks[step.out.picked[i]]],
                                     !.remainder_used = step.out.remainder_used]
         /\ pc' = "map"

\* the call of select_chunks, client.embed answering embeds
SelectChunks(embeds) ==
    /\ pc = "select" /\ select.state = "call"
    /\ Selected(select_chunks(chunks, embeddings, select.top_k, embeds, 0))
    /\ UNCHANGED <<others, reduce, settings, chunks, embeddings, concepts, idx, questions,
                   verified_questions, attempts, next_id, gen, ver>>

NextSelect == \E embeds \in EmbedScripts : SelectChunks(embeds)

SpecSelect == InitSelect /\ [][NextSelect]_vars

(***************************************************************************)
(* Properties of select_chunks.                                            *)
(***************************************************************************)

\* ceil(a / b) of ints a >= 0, b > 0
CeilDiv(a, b) == (a + b - 1) \div b

\* the buckets of the chunks of the call
AllBuckets == bucket_keys(chunks, [i \in 1..Len(chunks) |-> i])

\* C20: select_chunks (balanced) returns at most top_k chunks, each a member
\* of chunks and no member twice, and unless the fill from the remainder
\* added chunks, no bucket (the section title, or the page of a chunk without
\* title) has more than ceil(top_k / number of buckets) chunks in the result.
SelectBalanced ==
    select.state = "returned" =>
        /\ Len(select.picked) <= select.top_k
        /\ Len(select.selected) = Len(select.picked)
        /\ \A i \in 1..Len(select.picked) :
              /\ select.picked[i] \in 1..Len(chunks)
              /\ select.selected[i] = chunks[select.picked[i]]
              /\ \A j \in 1..Len(select.picked) :
                    i # j => select.picked[i] # select.picked[j]
        /\ ~select.remainder_used =>
              \A i \in 1..Len(select.picked) :
                  bucket_count(chunks, select.picked, bucket_key(select.selected[i]))
                      <= CeilDiv(select.top_k, Cardinality(AllBuckets))

\* top_k chunks were returned without the remainder, a bucket gave as many
\* as it may and had a chunk more to give
BucketCapReached ==
    /\ select.state = "returned" /\ ~select.remainder_used
    /\ select.top_k >= 2 /\ Len(select.picked) = select.top_k
    /\ \E i \in 1..Len(select.picked) :
          /\ bucket_count(chunks, select.picked, bucket_key(select.selected[i]))
                = CeilDiv(select.top_k, Cardinality(AllBuckets))
          /\ \E c \in 1..Len(chunks) :
                /\ bucket_key(chunks[c]) = bucket_key(select.selected[i])
                /\ \A j \in 1..Len(select.picked) : select.picked[j] # c

\* the positions a selector picks that walks select.scored with the quota
\* ceil(top_k / number of buckets) and then fills from the passed-over chunks
ReferencePicked ==
    fill_and_cut(select_loop(chunks, select.scored, 1, <<>>, <<>>, select.top_k,
                             CeilDiv(select.top_k, Cardinality(AllBuckets))),
                 select.scored, select.top_k).picked

\* C21: the chunks select_chunks returns are, as a set, those of the
\* reference selector whose quota phase accepts a chunk while its bucket
\* holds fewer than ceil(top_k / number of buckets) accepted chunks.
SelectedSetIsReference ==
    (select.state = "returned" /\ chunks # <<>>) =>
        {select.picked[i] : i \in 1..Len(select.picked)}
            = {ReferencePicked[i] : i \in 1..Len(ReferencePicked)}

(***************************************************************************)
(* search_index (retrieval.py, lines 32-44): one step from the call to its *)
(* return.                                                                 *)
(***************************************************************************)

\* the chunk lists and embeddings search_index is called with: embeddings
\* of equal similarity, empty ones, zero vectors, vectors of another length,
\* a vector opposite to the query, fewer embeddings than chunks
SearchRuns ==
    { [document |-> <<ChunkSense, ChunkPlan, ChunkLearn, ChunkModel>>,
       embeddings |-> << <<1, 0>>, <<0, 1>>, <<1, 1>>, <<1, 1>> >>],
      [document |-> <<ChunkSense, ChunkPlan, ChunkLearn>>,
       embeddings |-> << <<>>, <<0, 0>>, <<1, 0, 0>> >>],
      [document |-> <<ChunkSense, ChunkPlan, ChunkLearn, ChunkModel>>,
       embeddings |-> << <<1, 1>>, <<>>, <<0, 1>>, <<0, 0>> >>],
      [document |-> <<ChunkLearn, ChunkSense, ChunkModel>>,
       embeddings |-> << <<-1, 0>>, <<1, 0, 0>>, <<1, 0>> >>],
      [document |-> <<ChunkLearn, ChunkSense, ChunkModel>>,
       embeddings |-> << <<1, 1>>, <<1, 0>> >>],
      [document |-> <<ChunkSense, ChunkSense>>,
       embeddings |-> << <<1, 0>>, <<1, 0>> >>],
      [document |-> <<ChunkSense, ChunkPlan>>,
       embeddings |-> << <<1, 1>>, <<3, 3>> >>],
      [document |-> <<>>, embeddings |-> <<>>] }

\* what embed answers for the query of search_index
SearchEmbeddings == { <<2, 1>>, <<1, 2>>, <<0, 1>>, <<0, 0>>, <<>>, EmbedFails }

\* the largest top_k of a call
MaxSearchK == 4

\* search_index is called
InitSearch ==
    /\ \E run \in SearchRuns :
          /\ chunks = run.document
          /\ embeddings = run.embeddings
    /\ \E top_k \in 0..MaxSearchK : search = [NoSearch EXCEPT !.state = "call", !.top_k = top_k]
    /\ settings = [summary_retries |-> 0]
    /\ select = NoSelect
    /\ reduce = NoReduce
    /\ startup = NoStartup
    /\ cache = NoCache
    /\ map = NoMap
    /\ extract = NoExtract
    /\ concepts = <<>>
    /\ pc = "search"
    /\ idx = 0
    /\ questions = <<>>
    /\ verified_questions = <<>>
    /\ attempts = 0
    /\ next_id = 0
    /\ gen = NoGenerate
    /\ ver = NoVerify

\* the call of search_index: embed answers query_emb for the query, or raises
SearchIndex(query_emb) ==
    /\ pc = "search" /\ search.state = "call"
    /\ IF query_emb = EmbedFails
       THEN /\ search' = NoSearch
            /\ pc' = "raised"
       ELSE /\ search' = [search EXCEPT
                             !.state = "returned",
                             !.query_emb = query_emb,
                             !.scored = [i \in 1..MinInt(Len(chunks), Len(embeddings)) |->
                                            cosine_similarity(query_emb, embeddings[i])],
                             !.matches = search_index(query_emb, chunks, embeddings,
                                                      search.top_k)]
            /\ pc' = "searched"
    /\ UNCHANGED <<startup, cache, map, extract, select, reduce, settings, chunks, embeddings,
                   concepts, idx, questions, verified_questions, attempts, next_id, gen, ver>>

NextSearch == \E query_emb \in SearchEmbeddings : SearchIndex(query_emb)

SpecSearch == InitSearch /\ [][NextSearch]_vars

(***************************************************************************)
(* Properties of search_index.                                             *)
(***************************************************************************)

\* the similarities x and y are equal
SimEqual(x, y) == ~SimGreater(x, y) /\ ~SimGreater(y, x)

\* the embedding has no similarity to the query embedding: it is empty, of
\* norm zero or of another length
NotComparable(emb, query_emb) ==
    emb = <<>> \/ Dot(emb, emb) = 0 \/ Len(emb) # Len(query_emb)

\* matches are the chunks at the positions pos, which are distinct, by
\* non-increasing similarity, equal similarities by increasing position
RankedAt(pos) ==
    /\ \A i \in 1..Len(search.matches) : search.matches[i] = chunks[pos[i]]
    /\ \A i, j \in 1..Len(search.matches) :
          i < j => /\ pos[i] # pos[j]
                   /\ ~SimGreater(search.scored[pos[j]], search.scored[pos[i]])
                   /\ SimEqual(search.scored[pos[i]], search.scored[pos[j]]) => pos[i] < pos[j]

\* C22: search_index returns at most top_k chunks, by non-increasing cosine
\* similarity to the query embedding, chunks of equal similarity in input
\* order; a chunk whose embedding is empty, of norm zero or of another length
\* than the query embedding has similarity 0.  The similarity is the double
\* _cosine_similarity returns.
SearchRanked ==
    search.state = "returned" =>
        /\ Len(search.matches) <= search.top_k
        /\ \E pos \in [1..Len(search.matches) -> 1..Len(search.scored)] : RankedAt(pos)
        /\ \A i \in 1..Len(search.scored) :
              NotComparable(embeddings[i], search.query_emb) => search.scored[i][1] = 0

\* two chunks of equal similarity were returned after a chunk of greater
\* similarity, and a chunk without similarity was left out by top_k
TiesRanked ==
    /\ search.state = "returned"
    /\ Len(search.scored) = 4
    /\ Len(search.matches) = search.top_k /\ search.top_k = 3
    /\ SimGreater(search.scored[3], search.scored[1])
    /\ SimEqual(search.scored[3], search.scored[4])
    /\ search.matches = <<chunks[3], chunks[4], chunks[1]>>

(***************************************************************************)
(* run_pipeline from its first line to the embeddings: the checks on the   *)
(* pages and the chunks, the health probe, _build_or_load_embeddings with  *)
(* build_index.  startup.pages is the number of pages ingest_pdf returns,  *)
(* startup.document what chunk_pages returns, startup.health what          *)
(* check_health answers; startup.events logs the calls of the backend and  *)
(* the accesses to the cache file.  startup.accepts_timeout tells whether  *)
(* the class that the name OllamaClient of pipeline.py is bound to takes   *)
(* the keyword default_timeout: OllamaClient of ollama_client.py (line 10) *)
(* does not, the client class of tests/test_smoke.py (line 9), which the   *)
(* test binds to the name, does.  cache.enabled is                         *)
(* settings.embed_cache_enabled, cache.file the file at the cache path,    *)
(* cache.built the embeddings build_index has collected.                   *)
(***************************************************************************)

MaxPages == 2

StartDocuments ==
    { <<>>, <<ChunkSense>>, <<ChunkNoise>>, <<ChunkSense, ChunkPlan>>,
      <<ChunkSense, ChunkPlan, ChunkNoise>> }

\* what client.embed answers in build_index
BuildAnswers == { <<1, 0>>, <<0, 1>>, EmbedFails }

Event(op, chunk) == [op |-> op, chunk |-> chunk]

InitStart ==
    /\ \E pages \in 0..MaxPages, document \in StartDocuments, health \in BOOLEAN,
          accepts_timeout \in BOOLEAN :
          startup = [pages |-> pages, document |-> document, health |-> health,
                     accepts_timeout |-> accepts_timeout, events |-> <<>>]
    /\ \E enabled \in BOOLEAN, file \in CacheFiles :
          cache = [NoCache EXCEPT !.enabled = enabled, !.file = file]
    /\ settings = [summary_retries |-> 0]
    /\ chunks = <<>>
    /\ embeddings = <<>>
    /\ search = NoSearch
    /\ select = NoSelect
    /\ reduce = NoReduce
    /\ map = NoMap
    /\ extract = NoExtract
    /\ concepts = <<>>
    /\ pc = "ingest_pdf"
    /\ idx = 0
    /\ questions = <<>>
    /\ verified_questions = <<>>
    /\ attempts = 0
    /\ next_id = 0
    /\ gen = NoGenerate
    /\ ver = NoVerify

\* the rest of the state, which the start of the run leaves alone
StartFrame ==
    UNCHANGED <<search, map, extract, select, reduce, settings, concepts, idx, questions,
                verified_questions, attempts, next_id, gen, ver>>

\* pages = ingest_pdf(...); if not pages: raise ValueError
IngestPdf ==
    /\ pc = "ingest_pdf"
    /\ pc' = IF startup.pages = 0 THEN "raised" ELSE "chunk_pages"
    /\ UNCHANGED <<startup, cache, chunks, embeddings>>
    /\ StartFrame

\* chunks = chunk_pages(...); if not chunks: raise ValueError; the low-info
\* filter
ChunkPages ==
    /\ pc = "chunk_pages"
    /\ IF startup.document = <<>>
       THEN /\ pc' = "raised"
            /\ UNCHANGED chunks
       ELSE /\ chunks' = pipeline_chunks(startup.document)
            /\ pc' = "check_health"
    /\ UNCHANGED <<startup, cache, embeddings>>
    /\ StartFrame

\* CheckHealth with the answer of the probe ignored
CheckHealthIgnored ==
    /\ pc = "check_health"
    /\ IF ~startup.accepts_timeout
       THEN /\ pc' = "raised"
            /\ UNCHANGED startup
       ELSE /\ startup' = [startup EXCEPT !.events = Append(@, Event("probe", 0))]
            /\ pc' = "embeddings"
    /\ UNCHANGED <<cache, chunks, embeddings>>
    /\ StartFrame

\* lines 1326-1328.  client = OllamaClient(settings.base_url,
\* default_timeout = settings.chat_timeout) raises TypeError when the class
\* takes no default_timeout, before any probe; then
\* if not client.check_health(): raise RuntimeError
CheckHealth ==
    /\ pc = "check_health"
    /\ IF ~startup.accepts_timeout
       THEN /\ pc' = "raised"
            /\ UNCHANGED startup
       ELSE /\ startup' = [startup EXCEPT !.events = Append(@, Event("probe", 0))]
            /\ pc' = IF startup.health THEN "embeddings" ELSE "raised"
    /\ UNCHANGED <<cache, chunks, embeddings>>
    /\ StartFrame

\* _build_or_load_embeddings up to build_index
LoadEmbeddings ==
    /\ pc = "embeddings"
    /\ IF ~cache.enabled
       THEN /\ cache' = [cache EXCEPT !.state = "build"]
            /\ pc' = "build_index"
            /\ UNCHANGED <<startup, embeddings>>
       ELSE /\ startup' = [startup EXCEPT !.events = Append(@, Event("read", 0))]
            /\ IF load_embeddings(cache.file, chunks).raised
               THEN /\ pc' = "raised"
                    /\ UNCHANGED <<cache, embeddings>>
               ELSE IF load_embeddings(cache.file, chunks).out # <<>>
                       /\ load_embeddings(cache.file, chunks).out[1] # <<>>
               THEN /\ cache' = [cache EXCEPT !.state = "hit"]
                    /\ embeddings' = load_embeddings(cache.file, chunks).out[1]
                    /\ pc' = "embedded"
               ELSE /\ cache' = [cache EXCEPT !.state = "build"]
                    /\ pc' = "build_index"
                    /\ UNCHANGED embeddings
    /\ UNCHANGED chunks
    /\ StartFrame

\* BuildIndex with the file saved whether or not the cache is enabled
BuildIndexAlwaysSaves(emb) ==
    /\ pc = "build_index"
    /\ IF emb = EmbedFails
       THEN /\ startup' = [startup EXCEPT
                              !.events = Append(@, Event("embed", Len(cache.built) + 1))]
            /\ pc' = "raised"
            /\ UNCHANGED <<cache, embeddings>>
       ELSE IF Len(cache.built) + 1 < Len(chunks)
       THEN /\ startup' = [startup EXCEPT
                              !.events = Append(@, Event("embed", Len(cache.built) + 1))]
            /\ cache' = [cache EXCEPT !.built = Append(@, emb)]
            /\ UNCHANGED <<pc, embeddings>>
       ELSE /\ startup' = [startup EXCEPT
                              !.events = @ \o <<Event("embed", Len(cache.built) + 1),
                                                Event("write", 0)>>]
            /\ cache' = [cache EXCEPT
                            !.state = "built",
                            !.built = Append(@, emb),
                            !.file = save_embeddings(chunks, Append(cache.built, emb))]
            /\ embeddings' = Append(cache.built, emb)
            /\ pc' = "embedded"
    /\ UNCHANGED chunks
    /\ StartFrame

\* one turn of the loop of build_index: embed answers emb for the next chunk
\* or raises; after the last chunk _build_or_load_embeddings saves the
\* embeddings when the cache is enabled, and returns
BuildIndex(emb) ==
    /\ pc = "build_index"
    /\ IF emb = EmbedFails
       THEN /\ startup' = [startup EXCEPT
                              !.events = Append(@, Event("embed", Len(cache.built) + 1))]
            /\ pc' = "raised"
            /\ UNCHANGED <<cache, embeddings>>
       ELSE IF Len(cache.built) + 1 < Len(chunks)
       THEN /\ startup' = [startup EXCEPT
                              !.events = Append(@, Event("embed", Len(cache.built) + 1))]
            /\ cache' = [cache EXCEPT !.built = Append(@, emb)]
            /\ UNCHANGED <<pc, embeddings>>
       ELSE /\ startup' = [startup EXCEPT
                              !.events = IF cache.enabled
                                         THEN @ \o <<Event("embed", Len(cache.built) + 1),
                                                     Event("write", 0)>>
                                         ELSE Append(@, Event("embed", Len(cache.built) + 1))]
            /\ cache' = [cache EXCEPT
                            !.state = "built",
                            !.built = Append(@, emb),
                            !.file = IF cache.enabled
                                     THEN save_embeddings(chunks, Append(cache.built, emb))
                                     ELSE @]
            /\ embeddings' = Append(cache.built, emb)
            /\ pc' = "embedded"
    /\ UNCHANGED chunks
    /\ StartFrame

NextStart ==
    \/ IngestPdf
    \/ ChunkPages
    \/ CheckHealth
    \/ LoadEmbeddings
    \/ \E emb \in BuildAnswers : BuildIndex(emb)

SpecStart == InitStart /\ [][NextStart]_vars

\* the cache file names exactly the current chunks, in order, and holds one
\* embedding per chunk
CacheFileMatches ==
    /\ cache.file.kind = "object"
    /\ cache.file.chunk_ids = <<chunk_ids_of(chunks)>>
    /\ cache.file.embeddings # <<>>
    /\ Len(cache.file.embeddings[1]) = Len(chunks)

\* C23: with the cache enabled, the cached embeddings are used exactly when
\* the file's chunk_ids equal the current chunk ids in order and its
\* embeddings list has one entry per chunk; with any other file content, or no
\* file, the call goes on to embed every chunk, and when it returns after that
\* the file holds the current chunk ids and the new embeddings.
CacheUsedIffFileMatches ==
    /\ [][(pc = "embeddings" /\ cache.enabled) =>
             IF CacheFileMatches
             THEN pc' = "embedded" /\ embeddings' = cache.file.embeddings[1] /\ cache'.file = cache.file
             ELSE pc' = "build_index" /\ cache'.built = <<>>]_vars
    /\ [](pc = "embedded" /\ cache.enabled /\ cache.state = "built" =>
             /\ Len(embeddings) = Len(chunks)
             /\ cache.file = save_embeddings(chunks, embeddings))

\* the accesses a complete miss makes after the probe: the read when the
\* cache is enabled, one embed call per chunk in order, the write when the
\* cache is enabled
EmbedEvents == [i \in 1..Len(chunks) |-> Event("embed", i)]
MissEvents ==
    <<Event("probe", 0)>>
       \o (IF cache.enabled THEN <<Event("read", 0)>> ELSE <<>>)
       \o EmbedEvents
       \o (IF cache.enabled THEN <<Event("write", 0)>> ELSE <<>>)

\* C24: the cache file is read at most once and before any embedding; on a hit
\* no chunk is embedded and the file is not written; on a miss every chunk is
\* embedded exactly once, in chunk order, and the file is written exactly once
\* after the last embedding; with the cache disabled the file is neither read
\* nor written.
CacheProtocol ==
    /\ [](IF cache.state = "hit"
          THEN startup.events = <<Event("probe", 0), Event("read", 0)>>
          ELSE /\ Len(startup.events) <= Len(MissEvents)
               /\ startup.events = SubSeq(MissEvents, 1, Len(startup.events)))
    /\ [](pc = "embedded" /\ cache.state = "built" =>
             /\ startup.events = MissEvents
             /\ Len(embeddings) = Len(chunks))
    /\ [][(cache'.state = "hit" \/ ~cache.enabled) => cache'.file = cache.file]_vars

\* a miss with the cache enabled has embedded two chunks and written the file
MissRebuilt ==
    /\ pc = "embedded"
    /\ cache.enabled
    /\ cache.state = "built"
    /\ startup.events = <<Event("probe", 0), Event("read", 0), Event("embed", 1),
                          Event("embed", 2), Event("write", 0)>>
    /\ cache.file = save_embeddings(chunks, embeddings)

(***************************************************************************)
(* map_summarize.  map.chunks are the selected chunks, map.chunk_tokens is *)
(* settings.chunk_tokens, map.answers logs what chat_json did in each call *)
(* so far, map.summaries is the list the loop has built.  An answer is a   *)
(* raw mini summary with its kind: "raises" when chat_json raised, "value" *)
(* for a JSON value that is no object, "object" for a dict.                *)
(***************************************************************************)

\* "Learning agents improve their behaviour from feedback over many
\* episodes and they keep a model of the world to plan far ahead of every
\* move": 139 characters, the 120th is a blank
TextLong ==
    <<76, 101, 97, 114, 110, 105, 110, 103, 32, 97, 103, 101, 110, 116,
      115, 32, 105, 109, 112, 114, 111, 118, 101, 32, 116, 104, 101, 105,
      114, 32, 98, 101, 104, 97, 118, 105, 111, 117, 114, 32, 102, 114,
      111, 109, 32, 102, 101, 101, 100, 98, 97, 99, 107, 32, 111, 118,
      101, 114, 32, 109, 97, 110, 121, 32, 101, 112, 105, 115, 111, 100,
      101, 115, 32, 97, 110, 100, 32, 116, 104, 101, 121, 32, 107, 101,
      101, 112, 32, 97, 32, 109, 111, 100, 101, 108, 32, 111, 102, 32,
      116, 104, 101, 32, 119, 111, 114, 108, 100, 32, 116, 111, 32, 112,
      108, 97, 110, 32, 102, 97, 114, 32, 97, 104, 101, 97, 100, 32, 111,
      102, 32, 101, 118, 101, 114, 121, 32, 109, 111, 118, 101>>

ChunkLong == [chunk_id |-> "p5_c2", page |-> 5, section_title |-> <<>>, text |-> TextLong]

MapRuns ==
    { <<ChunkSense>>, <<ChunkLong>>, <<ChunkSense, ChunkPlan>>, <<ChunkLong, ChunkSense>>,
      <<ChunkPlan, ChunkLong, ChunkSense>> }

\* values of settings.chunk_tokens: no limit, five tokens, the default
MapTokenLimits == { 0, 5, 450 }

MapFails == EmptyMini @@ [kind |-> "raises"]
MapList == EmptyMini @@ [kind |-> "value"]
MapEmpty == EmptyMini @@ [kind |-> "object"]
\* {"mini_summary": " Agents act ", "keywords": ["agent", " "],
\*  "citations": [{"page": 2, "chunk_id": "p2_c1"}]}
MapGood ==
    [kind |-> "object",
     mini_summary |-> <<32, 65, 103, 101, 110, 116, 115, 32, 97, 99, 116, 32>>,
     keywords |-> << <<97, 103, 101, 110, 116>>, <<32>> >>,
     citations |-> <<[page |-> <<2>>, chunk_id |-> "p2_c1", chunkId |-> NoKey]>>,
     evidence_quotes |-> <<>>]
\* {"mini_summary": "  ", "citations": [{"chunk_id": "p1_c1"}]}
MapBlank ==
    [kind |-> "object", mini_summary |-> <<32, 32>>, keywords |-> <<>>,
     citations |-> <<[page |-> <<>>, chunk_id |-> "p1_c1", chunkId |-> NoKey]>>,
     evidence_quotes |-> <<>>]
\* {"mini_summary": "Agents act", "citations": [{"page": 1, "chunk_id": "", "chunkId": ""}]}
MapAlias ==
    [kind |-> "object",
     mini_summary |-> <<65, 103, 101, 110, 116, 115, 32, 97, 99, 116>>,
     keywords |-> <<>>,
     citations |-> <<[page |-> <<1>>, chunk_id |-> "", chunkId |-> ""]>>,
     evidence_quotes |-> <<>>]

MapAnswers == { MapFails, MapList, MapEmpty, MapGood, MapBlank, MapAlias }

InitMap ==
    /\ \E selected \in MapRuns, chunk_tokens \in MapTokenLimits :
          map = [NoMap EXCEPT !.state = "loop", !.chunks = selected,
                              !.chunk_tokens = chunk_tokens]
    /\ settings = [summary_retries |-> 0]
    /\ chunks = <<>>
    /\ embeddings = <<>>
    /\ search = NoSearch
    /\ startup = NoStartup
    /\ cache = NoCache
    /\ select = NoSelect
    /\ reduce = NoReduce
    /\ extract = NoExtract
    /\ concepts = <<>>
    /\ pc = "map_summarize"
    /\ idx = 0
    /\ questions = <<>>
    /\ verified_questions = <<>>
    /\ attempts = 0
    /\ next_id = 0
    /\ gen = NoGenerate
    /\ ver = NoVerify

\* one turn of the loop of map_summarize, in which chat_json does what data
\* tells; a value that is no object makes raw.get in normalize_mini_summary
\* raise AttributeError; after the last chunk map_summarize returns
MapSummarize(data) ==
    /\ pc = "map_summarize" /\ map.state = "loop"
    /\ IF data.kind = "value"
       THEN /\ map' = [map EXCEPT !.state = "raised", !.calls = @ + 1,
                                  !.answers = Append(@, data)]
            /\ pc' = "raised"
       ELSE /\ map' = [map EXCEPT
                          !.state = IF map.calls + 1 = Len(map.chunks)
                                    THEN "returned" ELSE "loop",
                          !.calls = @ + 1,
                          !.answers = Append(@, data),
                          !.summaries =
                              Append(@, map_chunk(IF data.kind = "raises" THEN EmptyMini
                                                  ELSE data,
                                                  map.chunks[map.calls + 1],
                                                  map.chunk_tokens))]
            /\ pc' = IF map.calls + 1 = Len(map.chunks) THEN "mapped" ELSE pc
    /\ UNCHANGED <<search, startup, cache, extract, select, reduce, settings, chunks,
                   embeddings, concepts, idx, questions, verified_questions, attempts,
                   next_id, gen, ver>>

NextMap == \E data \in MapAnswers : MapSummarize(data)

SpecMap == InitMap /\ [][NextMap]_vars

\* the head of the token-trimmed text of the chunk of call i
HeadOfChunk(i) == text_head(trim_to_tokens(map.chunks[i].text, map.chunk_tokens), MiniHeadChars)

\* call i failed, or its answer has no mini_summary text
NoMiniText(i) == map.answers[i].kind # "object" \/ Strip(map.answers[i].mini_summary) = <<>>

\* C25: map_summarize makes one generation call per chunk and builds one mini
\* summary per chunk, in chunk order, with the page and the chunk_id of the
\* chunk and a citations list that is not empty (the chunk itself when the
\* answer gave none); when the call fails or the answer has no mini_summary
\* text the mini_summary is the first 120 characters of the token-trimmed
\* chunk text, and the loop goes on: no answer makes map_summarize raise, and
\* it returns after as many calls as there are chunks.
MapOnePerChunk ==
    map.state # "none" =>
        /\ map.state # "raised"
        /\ Len(map.summaries) = map.calls
        /\ map.calls <= Len(map.chunks)
        /\ map.state = "returned" <=> map.calls = Len(map.chunks)
        /\ \A i \in 1..Len(map.summaries) :
              /\ map.summaries[i].page = map.chunks[i].page
              /\ map.summaries[i].chunk_id = map.chunks[i].chunk_id
              /\ map.summaries[i].citations # <<>>
              /\ normalize_citations(map.answers[i].citations) = <<>> =>
                    map.summaries[i].citations =
                        <<[page |-> map.chunks[i].page, chunk_id |-> map.chunks[i].chunk_id]>>
              /\ NoMiniText(i) => map.summaries[i].mini_summary = HeadOfChunk(i)

(***************************************************************************)
(* extract_concepts.  extract.keypoints and extract.mini_summaries are its *)
(* arguments as run_pipeline passes them at line 1340 (the keypoints of    *)
(* the summary block and the list map_summarize returned),                 *)
(* extract.question_count is settings.question_count,                      *)
(* extract.answer is what chat_json did, extract.fallback is the result of *)
(* _fallback_concepts_from_mini with the origin of each name (empty when   *)
(* the function was not called), extract.concepts the list returned.  An   *)
(* answer is of kind "raises" when chat_json raised, "value" for a JSON    *)
(* value that is no object, "object" for a dict whose entry "concepts" is  *)
(* the list concepts (empty when the entry is absent or no list).          *)
(***************************************************************************)

\* "Agents act"
NameAgents ==
    <<65, 103, 101, 110, 116, 115, 32, 97, 99, 116>>
\* "Plans help"
NamePlans ==
    <<80, 108, 97, 110, 115, 32, 104, 101, 108, 112>>
\* "Models"
NameModels ==
    <<77, 111, 100, 101, 108, 115>>
\* "agent"
WordAgent ==
    <<97, 103, 101, 110, 116>>
\* "plan"
WordPlan ==
    <<112, 108, 97, 110>>
\* "Agents sense the world" U+3002 "They act"
SumSense ==
    <<65, 103, 101, 110, 116, 115, 32, 115, 101, 110, 115, 101, 32, 116,
      104, 101, 32, 119, 111, 114, 108, 100, 12290, 84, 104, 101, 121,
      32, 97, 99, 116>>
\* "Rewards guide the agent"
SumBare ==
    <<82, 101, 119, 97, 114, 100, 115, 32, 103, 117, 105, 100, 101, 32,
      116, 104, 101, 32, 97, 103, 101, 110, 116>>
\* "Plans need a models" U+FF0C "so they search": the 20th character is U+FF0C
SumStop ==
    <<80, 108, 97, 110, 115, 32, 110, 101, 101, 100, 32, 97, 32, 109,
      111, 100, 101, 108, 115, 65292, 115, 111, 32, 116, 104, 101, 121,
      32, 115, 101, 97, 114, 99, 104>>
\* " HARD"
T_hard ==
    <<32, 72, 65, 82, 68>>

\* "Rewards guide"
NameRewards ==
    <<82, 101, 119, 97, 114, 100, 115, 32, 103, 117, 105, 100, 101>>
\* "Search trees"
NameSearch ==
    <<83, 101, 97, 114, 99, 104, 32, 116, 114, 101, 101, 115>>
\* "Rewards guide the agent" U+FF0C: no complete sentence
SumBareOpen == SumBare \o <<65292>>
\* "Plans need a models" U+FF0C "so they search" U+FF0C: no complete sentence
SumStopOpen == SumStop \o <<65292>>

MaxConcepts == 4

\* the keypoints of a block of the generator that passed _validate_summary_block
\* (line 449: five at least)
GeneratedKeypoints == <<NameAgents, NamePlans, NameModels, NameRewards, NameSearch>>

\* summary_block["keypoints"] at line 1337: the keypoints of a block that
\* passed the gate, or those _build_summary_block_from_mini makes (line 492)
ExtractKeypoints(mini_summaries) ==
    { GeneratedKeypoints,
      normalize_keypoints(<<>>, sentences_from_mini_summaries(mini_summaries)) }

MiniWithKeyword ==
    [page |-> 1, chunk_id |-> "p1_c1", mini_summary |-> SumSense, keywords |-> <<WordAgent>>,
     citations |-> <<[page |-> 1, chunk_id |-> "p1_c1"]>>, evidence_quotes |-> <<>>]
MiniBare ==
    [page |-> 4, chunk_id |-> "p4_c1", mini_summary |-> SumBare, keywords |-> <<>>,
     citations |-> <<[page |-> 4, chunk_id |-> "p4_c1"]>>, evidence_quotes |-> <<>>]
MiniWithStop ==
    [page |-> 2, chunk_id |-> "p2_c1", mini_summary |-> SumStop, keywords |-> <<WordPlan>>,
     citations |-> <<[page |-> 2, chunk_id |-> "p2_c1"]>>, evidence_quotes |-> <<>>]

MiniBareOpen == [MiniBare EXCEPT !.mini_summary = SumBareOpen]
MiniWithStopOpen == [MiniWithStop EXCEPT !.mini_summary = SumStopOpen]

\* what map_summarize returns: one mini summary for every selected chunk
ExtractMinis ==
    { <<MiniWithKeyword>>, <<MiniBare, MiniWithStop>>, <<MiniBareOpen, MiniWithStopOpen>> }

RawConcept(name) ==
    [is_dict |-> TRUE, name |-> name, description |-> <<>>, citations |-> <<>>,
     difficulty |-> <<>>]

ExtractFails == [kind |-> "raises", concepts |-> <<>>]
ExtractList == [kind |-> "value", concepts |-> <<>>]
ExtractEmpty == [kind |-> "object", concepts |-> <<>>]
ExtractTwo == [kind |-> "object", concepts |-> <<RawConcept(NameAgents), RawConcept(NameModels)>>]
ExtractTwice ==
    [kind |-> "object",
     concepts |-> <<RawConcept(NameModels), RawConcept(NameModels), RawConcept(NameAgents)>>]
ExtractOdd ==
    [kind |-> "object",
     concepts |-> <<[RawConcept(<<>>) EXCEPT !.is_dict = FALSE], RawConcept(<<32>>),
                    [RawConcept(NamePlans) EXCEPT !.difficulty = <<T_hard>>]>>]

ExtractAnswers == { ExtractFails, ExtractList, ExtractEmpty, ExtractTwo, ExtractTwice, ExtractOdd }

InitExtract ==
    /\ \E mini_summaries \in ExtractMinis, question_count \in 1..MaxConcepts :
          \E keypoints \in ExtractKeypoints(mini_summaries) :
             extract = [NoExtract EXCEPT !.state = "call", !.keypoints = keypoints,
                                         !.mini_summaries = mini_summaries,
                                         !.question_count = question_count]
    /\ settings = [summary_retries |-> 0]
    /\ chunks = <<>>
    /\ embeddings = <<>>
    /\ search = NoSearch
    /\ startup = NoStartup
    /\ cache = NoCache
    /\ map = NoMap
    /\ select = NoSelect
    /\ reduce = NoReduce
    /\ concepts = <<>>
    /\ pc = "extract_concepts"
    /\ idx = 0
    /\ questions = <<>>
    /\ verified_questions = <<>>
    /\ attempts = 0
    /\ next_id = 0
    /\ gen = NoGenerate
    /\ ver = NoVerify

\* extract_concepts, in which chat_json does what data tells; for a value
\* that is no object data.get raises AttributeError
ExtractConcepts(data) ==
    /\ pc = "extract_concepts" /\ extract.state = "call"
    /\ IF data.kind = "value"
       THEN /\ extract' = [extract EXCEPT !.state = "raised", !.answer = data]
            /\ pc' = "raised"
       ELSE /\ extract' =
                  [extract EXCEPT
                      !.state = "returned",
                      !.answer = data,
                      !.fallback =
                          IF Len(Prefix(normalize_concepts(data.concepts),
                                        extract.question_count)) < extract.question_count
                          THEN fallback_picks(extract.keypoints, extract.mini_summaries,
                                              extract.question_count)
                          ELSE <<>>,
                      !.concepts = extract_concepts(data.concepts, extract.keypoints,
                                                    extract.mini_summaries,
                                                    extract.question_count)]
            /\ pc' = "extracted"
    /\ UNCHANGED <<search, startup, cache, map, select, reduce, settings, chunks, embeddings,
                   concepts, idx, questions, verified_questions, attempts, next_id, gen, ver>>

NextExtract == \E data \in ExtractAnswers : ExtractConcepts(data)

SpecExtract == InitExtract /\ [][NextExtract]_vars

\* C26: extract_concepts returns at most question_count concepts, and their
\* names are pairwise distinct.
ConceptsDistinct ==
    extract.state = "returned" =>
        /\ Len(extract.concepts) <= extract.question_count
        /\ \A i, j \in 1..Len(extract.concepts) :
              i # j => extract.concepts[i].name # extract.concepts[j].name

\* a keypoint, or a keyword of a mini summary, is there to name a concept
NamedCandidate ==
    \/ \E i \in 1..Len(extract.keypoints) : extract.keypoints[i] # <<>>
    \/ \E i \in 1..Len(extract.mini_summaries) :
          \E k \in 1..Len(extract.mini_summaries[i].keywords) :
             extract.mini_summaries[i].keywords[k] # <<>>

\* C27: in the result of the concept fallback no concept named from a snippet
\* precedes a concept named from a keypoint or a keyword, and when a keypoint
\* or a keyword is there the first concept of the fallback is not named from a
\* snippet.
FallbackNamesBeforeSnippets ==
    extract.state = "returned" /\ extract.fallback # <<>> =>
        /\ \A i, j \in 1..Len(extract.fallback) :
              (i < j /\ extract.fallback[i].origin = "snippet") =>
                  extract.fallback[j].origin = "snippet"
        /\ NamedCandidate => extract.fallback[1].origin # "snippet"

\* the run has no pages, no chunks, or a backend that does not answer the probe
FatalStart == startup.pages = 0 \/ startup.document = <<>> \/ ~startup.health

\* the calls of the backend and the cache accesses logged so far, the probe
\* left out
CallsAfterProbe == SelectSeq(startup.events, LAMBDA e : e.op # "probe")

\* C28: run_pipeline makes no embedding call and no generation call before
\* the health probe has succeeded; with no pages, no chunks or a failed probe
\* it raises, and no embedding, no generation and no cache write is performed.
ProbeBeforeCalls ==
    /\ [](CallsAfterProbe # <<>> =>
             /\ startup.events[1] = Event("probe", 0)
             /\ startup.health)
    /\ [](pc \in {"embeddings", "build_index", "embedded"} =>
             /\ ~FatalStart
             /\ startup.events[1] = Event("probe", 0))
    /\ [](map.calls = 0 /\ reduce.calls = 0 /\ extract.state = "none" /\ gen = NoGenerate
          /\ ver = NoVerify)
    /\ [](FatalStart /\ pc \notin {"ingest_pdf", "chunk_pages", "check_health"} =>
             /\ pc = "raised"
             /\ CallsAfterProbe = <<>>
             /\ embeddings = <<>>)
    /\ [][FatalStart => cache'.file = cache.file]_vars

\* the probe has failed on a document with chunks, and the run has raised
ProbeFailed ==
    /\ pc = "raised"
    /\ startup.pages > 0
    /\ Len(chunks) = 2
    /\ startup.accepts_timeout
    /\ ~startup.health
    /\ startup.events = <<Event("probe", 0)>>

\* C29: after a successful health probe the failure of one call of the
\* backend is the failure of that call only: an embedding call that raises in
\* build_index does not make run_pipeline raise.
EmbedFailureIsLocal ==
    [][(pc = "build_index" /\ startup.health) => pc' # "raised"]_vars

\* C30: whatever the generator answers, a JSON object or a JSON value that is
\* no object, generate_question_for_concept and verify_questions normalize the
\* answer and do not raise; verify_questions does not raise either when the
\* question left by the loop, a rewrite, has an empty concept_tags list.
AnswersNeverRaise ==
    [][(\/ pc \in {"generate", "verify_chat"}
        \/ (pc = "after_loop" /\ no_concept_tag(ver.current))) => pc' # "raised"]_vars

(***************************************************************************)
(* _select_evidence_chunks called on its own: gen.concept is the concept,  *)
(* chunks and embeddings the document, search the call of search_index on  *)
(* the concept name, gen.evidence_chunks the list returned.                *)
(***************************************************************************)

\* the n-th low-information chunk of page 3
NoiseChunk(n) ==
    [ChunkNoise EXCEPT !.chunk_id = <<"p3_c1", "p3_c2", "p3_c3", "p3_c4", "p3_c5", "p3_c6",
                                      "p3_c7", "p3_c8">>[n]]

\* documents with low-information chunks, as _select_evidence_chunks may get
\* them, and the embeddings of their chunks
EvidenceRuns ==
    { [document |-> <<ChunkSense, ChunkPlan, ChunkNoise>>,
       embeddings |-> << <<1, 0>>, <<0, 1>>, <<1, 1>> >>],
      [document |-> <<ChunkNoise, ChunkSense, ChunkPlan, ChunkLearn, ChunkModel>>,
       embeddings |-> << <<1, 1>>, <<0, 1>>, <<1, 0>>, <<1, 1>>, <<0, 1>> >>],
      [document |-> <<ChunkNoise>>, embeddings |-> << <<1, 0>> >>],
      [document |-> <<ChunkSense, ChunkPlan, ChunkNoise, ChunkLearn, ChunkModel, ChunkReward,
                      ChunkIntro, ChunkIntroNext, ChunkIntroLast, ChunkPageOne>>,
       embeddings |-> << <<1, 0>>, <<0, 1>>, <<1, 1>>, <<1, 0>>, <<0, 1>>, <<1, 1>>, <<1, 0>>,
                         <<0, 1>>, <<1, 1>>, <<1, 0>> >>],
      [document |-> [i \in 1..8 |-> NoiseChunk(i)] \o <<ChunkSense, ChunkPlan>>,
       embeddings |-> [i \in 1..8 |-> <<1, 0>>] \o << <<0, 1>>, <<0, 1>> >>],
      [document |-> <<>>, embeddings |-> <<>>] }

Cite(page, chunk_id) == [page |-> page, chunk_id |-> chunk_id]

\* citations of a concept: none, a chunk that is no chunk of the document, a
\* low-information chunk, one chunk twice, seven chunks
EvidenceCitations ==
    { <<>>,
      <<Cite(9, "p9_c9")>>,
      <<Cite(3, "p3_c1")>>,
      <<Cite(3, "p3_c1"), Cite(2, "p2_c1")>>,
      <<Cite(2, "p2_c1"), Cite(1, "p1_c1"), Cite(2, "p2_c1")>>,
      <<Cite(4, "p4_c1"), Cite(9, "p9_c9"), Cite(1, "p1_c1")>>,
      <<Cite(9, "p9_c1"), Cite(8, "p8_c1"), Cite(7, "p7_c2"), Cite(7, "p7_c1"),
        Cite(6, "p6_c1"), Cite(5, "p5_c1"), Cite(4, "p4_c1")>> }

InitEvidence ==
    /\ \E run \in EvidenceRuns :
          /\ chunks = run.document
          /\ embeddings = run.embeddings
    /\ \E citations \in EvidenceCitations :
          gen = [NoGenerate EXCEPT !.concept = [name |-> "agent", citations |-> citations]]
    /\ settings = [summary_retries |-> 0]
    /\ search = [NoSearch EXCEPT !.state = "call", !.top_k = 8]
    /\ startup = NoStartup
    /\ cache = NoCache
    /\ map = NoMap
    /\ extract = NoExtract
    /\ select = NoSelect
    /\ reduce = NoReduce
    /\ concepts = <<>>
    /\ pc = "select_evidence"
    /\ idx = 0
    /\ questions = <<>>
    /\ verified_questions = <<>>
    /\ attempts = 0
    /\ next_id = 0
    /\ ver = NoVerify

\* _select_evidence_chunks: embed answers query_emb for the concept name, or
\* raises
SelectEvidence(query_emb) ==
    /\ pc = "select_evidence"
    /\ IF query_emb = EmbedFails
       THEN /\ pc' = "raised"
            /\ UNCHANGED <<search, gen>>
       ELSE /\ search' = [search EXCEPT
                             !.state = "returned",
                             !.query_emb = query_emb,
                             !.scored = [i \in 1..MinInt(Len(chunks), Len(embeddings)) |->
                                            cosine_similarity(query_emb, embeddings[i])],
                             !.matches = search_index(query_emb, chunks, embeddings, 8)]
            /\ gen' = [gen EXCEPT
                          !.caller = "evidence",
                          !.evidence_chunks =
                              select_evidence_chunks(gen.concept, chunks, embeddings, query_emb)]
            /\ pc' = "evidence_selected"
    /\ UNCHANGED <<startup, cache, map, extract, select, reduce, settings, chunks, embeddings,
                   concepts, idx, questions, verified_questions, attempts, next_id, ver>>

NextEvidence == \E query_emb \in EmbedAnswers : SelectEvidence(query_emb)

SpecEvidence == InitEvidence /\ [][NextEvidence]_vars

\* the ids of a list of chunks
IdsOf(list) == {list[i].chunk_id : i \in 1..Len(list)}

\* the chunks of the document that are not low-information and that the
\* concept cites
CitedGood ==
    SelectSeq(chunks, LAMBDA c : /\ ~is_low_info_chunk(c)
                                 /\ \E i \in 1..Len(gen.concept.citations) :
                                       gen.concept.citations[i].chunk_id = c.chunk_id)

\* the results of the similarity search that are not low-information
SearchGood == SelectSeq(search.matches, LAMBDA c : ~is_low_info_chunk(c))

\* the chunks of the document that are not low-information
DocumentGood == SelectSeq(chunks, LAMBDA c : ~is_low_info_chunk(c))

\* the evidence has the ids of from, up to six of them
TakenFrom(from) ==
    /\ IdsOf(gen.evidence_chunks) \subseteq IdsOf(from)
    /\ Len(gen.evidence_chunks) = MinInt(6, Cardinality(IdsOf(from)))

\* C31: the evidence of a concept is the cited chunks of the document that
\* are not low-information when there is one; otherwise the results of the
\* similarity search on the concept name that are not low-information when
\* there is one; otherwise the first 3 chunks of the document that are not
\* low-information.  It has at most 6 chunks, pairwise distinct ids and no
\* low-information chunk, and it is not empty when the document has a chunk
\* that is not low-information.
EvidencePrecedence ==
    pc = "evidence_selected" =>
        /\ Len(gen.evidence_chunks) <= 6
        /\ \A i, j \in 1..Len(gen.evidence_chunks) :
              i # j => gen.evidence_chunks[i].chunk_id # gen.evidence_chunks[j].chunk_id
        /\ \A i \in 1..Len(gen.evidence_chunks) :
              /\ ~is_low_info_chunk(gen.evidence_chunks[i])
              /\ \E k \in 1..Len(chunks) : chunks[k] = gen.evidence_chunks[i]
        /\ DocumentGood # <<>> => gen.evidence_chunks # <<>>
        /\ IF CitedGood # <<>> THEN TakenFrom(CitedGood)
           ELSE IF SearchGood # <<>> THEN TakenFrom(SearchGood)
           ELSE gen.evidence_chunks = Prefix(DocumentGood, 3)

\* seven cited chunks of the document are cut to six
EvidenceCut ==
    /\ pc = "evidence_selected"
    /\ Cardinality(IdsOf(CitedGood)) = 7
    /\ Len(gen.evidence_chunks) = 6

\* the text of the evidence of current, as verify_questions joins it
EvidenceFullText ==
    JoinWith([i \in 1..Len(ver.evidence_chunks) |-> ver.evidence_chunks[i].text], <<10>>)

\* current has no citation
CheckNoCitations == ver.current.citations = <<>>

\* current is a tf question that reads as a question
CheckTfInterrogative ==
    ver.current.type = T_tf /\ is_question_sentence(ver.current.question)

\* current is an mcq with a banned choice
CheckBannedChoice == ver.current.type = T_mcq /\ has_banned_mcq_choice(ver.current.choices)

\* question, answer and rationale of current name a title that the evidence
\* does not have
CheckExternalTitle ==
    contains_external_reference(
        ver.current.question \o <<32>> \o ver.current.answer \o <<32>> \o ver.current.rationale,
        EvidenceFullText)

\* a quote of current names no chunk, or is no substring of the chunk it names
CheckQuoteMissing ==
    \E i \in 1..Len(ver.current.evidence_quotes) :
        \A k \in 1..Len(chunks) :
            chunks[k].chunk_id = ver.current.evidence_quotes[i].chunk_id =>
                ~HasSub(chunks[k].text, ver.current.evidence_quotes[i].quote)

\* one of the checks verify_questions makes itself fires on current
LocalCheckFires ==
    \/ CheckNoCitations
    \/ is_meta_question(ver.current.question)
    \/ CheckTfInterrogative
    \/ CheckBannedChoice
    \/ CheckExternalTitle
    \/ CheckQuoteMissing

\* C32: a verify attempt ends supported only if the verifier answered
\* supported and none of the checks of verify_questions fires on current:
\* no citation, a meta-question, a tf question that reads as a question, an
\* mcq with a banned choice, a title the evidence does not have, a quote
\* that is no substring of the chunk it names or names no chunk.  Each of
\* them alone makes the attempt end unsupported.
SupportedOnlyUnchecked ==
    pc = "verify_chat" =>
        \A data \in VerifyAnswers :
            (data.is_object /\ verify_attempt(settings, ver.current, data, ver.evidence_chunks,
                                              chunks).supported)
                => (data.supported /\ ~LocalCheckFires)

\* the verifier is asked about a question on which only the check of titles
\* fires
TitleCheckAlone ==
    /\ pc = "verify_chat"
    /\ CheckExternalTitle
    /\ ~CheckNoCitations
    /\ ~is_meta_question(ver.current.question)
    /\ ~CheckTfInterrogative
    /\ ~CheckBannedChoice
    /\ ~CheckQuoteMissing
    /\ ver.current.type # T_short

(***************************************************************************)
(* _normalize_sections called on its own: chunks and embeddings are the    *)
(* document, reduce.mini_summaries the mini summaries, and                 *)
(* reduce.summary_block.sections the sections it returns.                  *)
(***************************************************************************)

\* documents of one page, of three and five pages, and one with two chunks
\* on page 7
SectionDocuments ==
    { <<ChunkSense>>,
      <<ChunkSense, ChunkPlan, ChunkLearn>>,
      <<ChunkSense, ChunkPlan, ChunkLearn, ChunkModel, ChunkReward>>,
      <<ChunkIntro, ChunkIntroNext, ChunkIntroLast, ChunkSense>> }

\* sections of a response: citing two pages, two chunks of page 7, one chunk
\* twice, nothing, a chunk that is no chunk of the document, two chunks under
\* the same page number, five pages
RawSection(title, summary, citations) ==
    [title |-> title, summary |-> summary, citations |-> citations]
RawCite(page, chunk_id) == [page |-> <<page>>, chunk_id |-> chunk_id, chunkId |-> NoKey]
RawSections ==
    { RawSection(TitleAgents, SummarySense, CitesSenseAndPlan),
      RawSection(TitlePlans, SummaryPlan, <<RawCite(7, "p7_c1"), RawCite(7, "p7_c2")>>),
      RawSection(TitleAgents, SummarySense, <<RawCite(1, "p1_c1"), RawCite(1, "p1_c1")>>),
      RawSection(TitleLearning, SummaryLearn, <<>>),
      RawSection(<<>>, SummaryModel, <<RawCite(9, "p9_c9"), RawCite(1, "p1_c1")>>),
      RawSection(TitlePlans, SummaryPlan, <<RawCite(5, "p1_c1"), RawCite(5, "p2_c1")>>),
      RawSection(TitleLearning, SummaryLearn,
                 <<RawCite(1, "p1_c1"), RawCite(2, "p2_c1"), RawCite(4, "p4_c1"),
                   RawCite(5, "p5_c1"), RawCite(6, "p6_c1")>>) }

\* the lists of sections of a response: one section or two
SectionAnswers ==
    {<<a>> : a \in RawSections} \cup {<<a, b>> : a \in RawSections, b \in RawSections}

InitSections ==
    /\ \E document \in SectionDocuments :
          /\ chunks = document
          /\ embeddings = [i \in 1..Len(document) |-> ChunkEmbedding(document[i])]
          /\ \E mini_summaries \in {<<>>, <<MiniSense, MiniPlan>>} :
                reduce = [NoReduce EXCEPT !.state = "sections",
                                          !.mini_summaries = mini_summaries,
                                          !.selected_chunks = document]
    /\ settings = [summary_retries |-> 0]
    /\ concepts = <<>>
    /\ pc = "normalize_sections"
    /\ idx = 0
    /\ questions = <<>>
    /\ verified_questions = <<>>
    /\ attempts = 0
    /\ next_id = 0
    /\ gen = NoGenerate
    /\ ver = NoVerify
    /\ select = NoSelect
    /\ search = NoSearch
    /\ startup = NoStartup
    /\ cache = NoCache
    /\ map = NoMap
    /\ extract = NoExtract

\* _normalize_sections returned or raised
SectionsMade(step) ==
    IF step.raised THEN ReduceRaise
    ELSE /\ reduce' = [reduce EXCEPT !.state = "returned", !.calls = step.used,
                                     !.summary_block.sections = step.out]
         /\ pc' = "sections_normalized"

\* _normalize_sections on the sections of a response; client.embed answers
\* embeds
NormalizeSections(raw_sections, embeds) ==
    /\ pc = "normalize_sections"
    /\ SectionsMade(normalize_sections(raw_sections, chunks, embeddings, reduce.mini_summaries,
                                       target_sections_of(reduce.selected_chunks), embeds, 0))
    /\ UNCHANGED <<search, startup, cache, map, extract, select, settings, chunks, embeddings,
                   concepts, idx, questions, verified_questions, attempts, next_id, gen, ver>>

NextSections ==
    \E raw_sections \in SectionAnswers : \E embeds \in EmbedScripts :
        NormalizeSections(raw_sections, embeds)

SpecSections == InitSections /\ [][NextSections]_vars

\* the sections _normalize_sections returned
SectionsOut == reduce.summary_block.sections

\* C33: the citations of every section _normalize_sections returns name
\* chunks of the document, are on pairwise distinct pages and are at most 4;
\* when the chunks of the document that are not low-information are on 2
\* pages or more, every section has at least 2 citations
SectionCitationsBackfilled ==
    pc = "sections_normalized" =>
        \A s \in 1..Len(SectionsOut) :
            /\ \A i \in 1..Len(SectionsOut[s].citations) :
                  SectionsOut[s].citations[i].chunk_id \in ChunkIds
            /\ \A i, j \in 1..Len(SectionsOut[s].citations) :
                  i # j => SectionsOut[s].citations[i].page # SectionsOut[s].citations[j].page
            /\ Len(SectionsOut[s].citations) <= 4
            /\ Cardinality(PagesOf(filter_low_info_chunks(chunks))) >= 2 =>
                  Len(SectionsOut[s].citations) >= 2

\* the questions run_pipeline returns
Output == IF pc = "done" THEN {verified_questions[i] : i \in 1..Len(verified_questions)} ELSE {}

\* C34: the rationale of every question run_pipeline returns contains the
\* text of one of the evidence quotes of the question
RationaleHasQuote ==
    \A q \in Output :
        \E i \in 1..Len(q.evidence_quotes) :
            /\ q.evidence_quotes[i].quote # <<>>
            /\ HasSub(q.rationale, q.evidence_quotes[i].quote)

\* run_pipeline returns a question whose rationale ends with the quote that
\* _ensure_rationale_quotes appended
QuoteAppended ==
    \E q \in Output :
        /\ q.evidence_quotes # <<>>
        /\ HasSub(q.rationale, QuoteOpen \o q.evidence_quotes[1].quote \o QuoteClose)

(***************************************************************************)
(* run_pipeline at line 1331: _select_chunk_set on the chunks of the       *)
(* document.  startup.pages is len(pages); select.selected the chunks      *)
(* that map_summarize is given.                                            *)
(***************************************************************************)

\* the largest number of pages, and the largest value of a threshold or a
\* count of the settings
MaxPageCount == 3
MaxThreshold == 6

\* the settings _select_chunk_set reads
ChunkSetSettings ==
    [long_doc_threshold_pages : {2, 4},
     selector_chunk_threshold : {3, MaxThreshold},
     top_k_chunks : {1, 2, MaxThreshold},
     max_chunks : {1, 3, MaxThreshold}]

InitChunkSet ==
    /\ \E document \in SelectRuns \ {<<>>} :
          /\ chunks = document
          /\ embeddings = [i \in 1..Len(document) |-> ChunkEmbedding(document[i])]
    /\ \E chunk_set_settings \in ChunkSetSettings : settings = chunk_set_settings
    /\ \E page_count \in 1..MaxPageCount : startup = [NoStartup EXCEPT !.pages = page_count]
    /\ select = [NoSelect EXCEPT !.state = "call"]
    /\ search = NoSearch
    /\ cache = NoCache
    /\ map = NoMap
    /\ extract = NoExtract
    /\ reduce = NoReduce
    /\ concepts = <<>>
    /\ pc = "select_chunk_set"
    /\ idx = 0
    /\ questions = <<>>
    /\ verified_questions = <<>>
    /\ attempts = 0
    /\ next_id = 0
    /\ gen = NoGenerate
    /\ ver = NoVerify

\* _select_chunk_set returned, or client.embed raised in select_chunks
ChunkSetSelected(step) ==
    IF step.raised
    THEN /\ select' = NoSelect
         /\ pc' = "raised"
    ELSE /\ select' = [select EXCEPT
                          !.state = IF step.out.selector THEN "returned" ELSE "skipped",
                          !.top_k = IF step.out.selector THEN selector_top_k(chunks, settings)
                                                         ELSE 0,
                          !.picked = step.out.picked,
                          !.selected = [i \in 1..Len(step.out.picked) |->
                                           chunks[step.out.picked[i]]]]
         /\ pc' = "map"

\* line 1331: _select_chunk_set, client.embed answering embeds
SelectChunkSet(embeds) ==
    /\ pc = "select_chunk_set"
    /\ ChunkSetSelected(select_chunk_set(startup.pages, chunks, embeddings, settings, embeds, 0))
    /\ UNCHANGED <<search, startup, cache, map, extract, reduce, settings, chunks, embeddings,
                   concepts, idx, questions, verified_questions, attempts, next_id, gen, ver>>

NextChunkSet == \E embeds \in EmbedScripts : SelectChunkSet(embeds)

SpecChunkSet == InitChunkSet /\ [][NextChunkSet]_vars

\* the document is short enough for the whole chunk set
ShortDocument ==
    /\ startup.pages < settings.long_doc_threshold_pages
    /\ Len(chunks) < settings.selector_chunk_threshold
    /\ Len(chunks) <= settings.max_chunks

\* C35: map_summarize is given at most max_chunks chunks: all the chunks
\* only when the number of pages is below long_doc_threshold_pages and the
\* number of chunks is below selector_chunk_threshold and at most
\* max_chunks, otherwise what select_chunks returns for k = the least of
\* top_k_chunks, max_chunks and the number of chunks
ChunkSetBounded ==
    pc = "map" =>
        /\ Len(select.selected) <= settings.max_chunks
        /\ select.state = "skipped" <=> ShortDocument
        /\ select.state = "skipped" => select.selected = chunks
        /\ select.state = "returned" =>
              /\ select.top_k <= settings.top_k_chunks
              /\ select.top_k <= settings.max_chunks
              /\ select.top_k <= Len(chunks)
              /\ select.top_k \in {settings.top_k_chunks, settings.max_chunks, Len(chunks)}
              /\ Len(select.selected) <= select.top_k

\* the selector cut a document of more than max_chunks chunks down to
\* max_chunks
CutToMaxChunks ==
    /\ pc = "map"
    /\ select.state = "returned"
    /\ Len(chunks) > settings.max_chunks
    /\ settings.top_k_chunks > settings.max_chunks
    /\ Len(select.selected) = settings.max_chunks

\* C36: the questions run_pipeline returns have pairwise distinct ids,
\* whatever the verifier dropped or rewrote and the top-up loop added
OutputIdsDistinct ==
    pc = "done" =>
        \A i, j \in 1..Len(verified_questions) :
            i # j => verified_questions[i].id # verified_questions[j].id

(***************************************************************************)
(* run_pipeline from the concepts on, with a chunk that has no quote and   *)
(* responses that cite a chunk under a page that is not the page of the    *)
(* chunk, or cite the chunk without quote.                                 *)
(***************************************************************************)

\* "Agents act on what they sense " and 16 times U+00A7: 30 of its 46
\* characters are allowed ones, which is not low-information (at least 0.6)
\* and too few for a quote (below 0.7)
TextSymbols ==
    <<65, 103, 101, 110, 116, 115, 32, 97, 99, 116, 32, 111, 110, 32, 119,
      104, 97, 116, 32, 116, 104, 101, 121, 32, 115, 101, 110, 115, 101, 32,
      167, 167, 167, 167, 167, 167, 167, 167, 167, 167, 167, 167, 167, 167,
      167, 167>>
ChunkSymbols == [chunk_id |-> "p4_c1", page |-> 4, section_title |-> <<>>, text |-> TextSymbols]

\* a concept citing the chunk without quote and the chunk p1_c1
ConceptBoth ==
    [name |-> "agent",
     citations |-> <<[page |-> 4, chunk_id |-> "p4_c1"], [page |-> 1, chunk_id |-> "p1_c1"]>>]

\* a response citing the chunk without quote only
SymbolsTf == [GoodTf EXCEPT !.citations = <<[page |-> <<4>>, chunk_id |-> "p4_c1", chunkId |-> NoKey]>>]

\* a response citing p1_c1, a chunk of page 1, under page 5
MispagedTf == [GoodTf EXCEPT !.citations = <<[page |-> <<5>>, chunk_id |-> "p1_c1", chunkId |-> NoKey]>>]

\* what chat_json answers: the answers of the other runs and the responses
\* above, as a question and as a revised_question
PageGenerateAnswers ==
    GenerateAnswers \cup {[is_object |-> TRUE, obj |-> MispagedTf],
                          [is_object |-> TRUE, obj |-> SymbolsTf]}
PageVerifyAnswers ==
    VerifyAnswers \cup {[is_object |-> TRUE, supported |-> FALSE, revised |-> <<MispagedTf>>]}

\* the run: two chunks, one concept
PageRuns ==
    { [document |-> <<ChunkSense, ChunkSymbols>>,
       concepts |-> <<ConceptBoth>>,
       settings |-> SettingsOf(<<T_tf, T_mcq>>)] }

InitPages ==
    /\ \E run \in PageRuns :
          /\ settings = run.settings
          /\ chunks = pipeline_chunks(run.document)
          /\ embeddings = [i \in 1..Len(chunks) |-> ChunkEmbedding(chunks[i])]
          /\ concepts = run.concepts
    /\ pc = "main"
    /\ idx = 1
    /\ questions = <<>>
    /\ verified_questions = <<>>
    /\ attempts = 0
    /\ next_id = 0
    /\ gen = NoGenerate
    /\ ver = NoVerify
    /\ select = NoSelect
    /\ reduce = NoReduce
    /\ search = NoSearch
    /\ startup = NoStartup
    /\ cache = NoCache
    /\ map = NoMap
    /\ extract = NoExtract

NextPages ==
    \/ \E embedding \in EmbedAnswers : MainGenerate(embedding)
    \/ \E data \in PageGenerateAnswers : GenerateAttempt(data)
    \/ MainVerify
    \/ \E embedding \in EmbedAnswers : VerifyEvidence(embedding)
    \/ \E data \in PageVerifyAnswers : VerifyAttempt(data)
    \/ \E embedding \in EmbedAnswers : VerifyRegenerate(embedding)
    \/ VerifyIndexError
    \/ VerifyAppend
    \/ VerifyDrop
    \/ \E embedding \in EmbedAnswers : TopupGenerate(embedding)
    \/ TopupEnd

SpecPages == InitPages /\ [][NextPages]_vars

\* the citation names a chunk of the pipeline under the page of that chunk
PageOfChunk(citation) ==
    \E k \in 1..Len(chunks) :
        chunks[k].chunk_id = citation.chunk_id /\ chunks[k].page = citation.page

\* C37: every citation of a question run_pipeline returns has the page of
\* the chunk it names, whatever page the response gave it
QuestionCitationPages ==
    \A q \in Output : \A i \in 1..Len(q.citations) : PageOfChunk(q.citations[i])

\* C38: every evidence quote of a question run_pipeline returns names a
\* chunk that the citations of the question name
QuotesOfCitedChunks ==
    \A q \in Output :
        \A i \in 1..Len(q.evidence_quotes) :
            \E j \in 1..Len(q.citations) :
                q.citations[j].chunk_id = q.evidence_quotes[i].chunk_id

(***************************************************************************)
(* _save_embeddings followed by _load_embeddings.  chunks and embeddings   *)
(* are what _save_embeddings is called with, startup.document is the chunk *)
(* list _load_embeddings is called with, cache.file is the file at the     *)
(* cache path, cache.built is what _load_embeddings returned (<<>> for     *)
(* None) and startup.events logs the writes and reads of the file.  A run  *)
(* starts either with the save or, for a file found on disk, with the load.*)
(***************************************************************************)
CacheDocuments ==
    { <<>>, <<ChunkSense>>, <<ChunkSense, ChunkPlan>>, <<ChunkPlan, ChunkSense>>,
      <<ChunkSense, ChunkNoise>>, <<ChunkSense, ChunkPlan, ChunkNoise>> }

\* the vectors build_index can have made for a chunk list
CacheVectors(document) == [1..Len(document) -> {<<1, 0>>, <<0, 1>>}]

InitCache ==
    /\ \E saved \in CacheDocuments, document \in CacheDocuments :
          /\ chunks = saved
          /\ embeddings \in CacheVectors(saved)
          /\ startup = [NoStartup EXCEPT !.document = document]
    /\ \E file \in CacheFiles : cache = [NoCache EXCEPT !.file = file]
    /\ pc \in {"save_embeddings", "load_embeddings"}
    /\ settings = [summary_retries |-> 0]
    /\ search = NoSearch
    /\ select = NoSelect
    /\ reduce = NoReduce
    /\ map = NoMap
    /\ extract = NoExtract
    /\ concepts = <<>>
    /\ idx = 0
    /\ questions = <<>>
    /\ verified_questions = <<>>
    /\ attempts = 0
    /\ next_id = 0
    /\ gen = NoGenerate
    /\ ver = NoVerify

\* _save_embeddings(cache_path, chunks, embeddings)
SaveCache ==
    /\ pc = "save_embeddings"
    /\ cache' = [cache EXCEPT !.file = save_embeddings(chunks, embeddings)]
    /\ startup' = [startup EXCEPT !.events = Append(@, Event("write", 0))]
    /\ pc' = "load_embeddings"
    /\ UNCHANGED <<chunks, embeddings>>
    /\ StartFrame

\* _load_embeddings(cache_path, startup.document)
LoadCache ==
    /\ pc = "load_embeddings"
    /\ startup' = [startup EXCEPT !.events = Append(@, Event("read", 0))]
    /\ IF load_embeddings(cache.file, startup.document).raised
       THEN /\ pc' = "raised"
            /\ UNCHANGED cache
       ELSE /\ cache' = [cache EXCEPT
                            !.state = IF load_embeddings(cache.file, startup.document).out # <<>>
                                      THEN "hit" ELSE "miss",
                            !.built = load_embeddings(cache.file, startup.document).out]
            /\ pc' = "cache_loaded"
    /\ UNCHANGED <<chunks, embeddings>>
    /\ StartFrame

NextCache ==
    \/ SaveCache
    \/ LoadCache

SpecCache == InitCache /\ [][NextCache]_vars

\* the load came after a save of chunks and embeddings
LoadedAfterSave ==
    /\ pc = "cache_loaded"
    /\ startup.events = <<Event("write", 0), Event("read", 0)>>

\* C39: loading after a save with the same chunk ids in the same order gives
\* back the saved vectors unchanged; loading with chunk ids that differ in an
\* id, in the order or in the number gives no vectors; a file that cannot be
\* parsed gives no vectors and raises nothing.
CacheRoundTrip ==
    /\ LoadedAfterSave =>
          IF chunk_ids_of(startup.document) = chunk_ids_of(chunks)
          THEN /\ cache.state = "hit"
               /\ cache.built = <<embeddings>>
          ELSE /\ cache.state = "miss"
               /\ cache.built = <<>>
    /\ cache.file.kind = "unreadable" /\ pc \notin {"save_embeddings", "load_embeddings"} =>
          /\ pc = "cache_loaded"
          /\ cache.state = "miss"
          /\ cache.built = <<>>

\* two chunks were saved with their vectors and loaded back
SavedVectorsLoaded ==
    /\ LoadedAfterSave
    /\ startup.document = <<ChunkSense, ChunkPlan>>
    /\ chunks = startup.document
    /\ cache.state = "hit"
    /\ cache.built = << << <<1, 0>>, <<0, 1>> >> >>

(***************************************************************************)
(* run_pipeline up to _filter_pages.  startup.document is what ingest_pdf  *)
(* returned, startup.filtered what _filter_pages made of it.  ingest_pdf   *)
(* (ingest.py, lines 71-107) keeps of a page the lines that filter_lines   *)
(* lets through, each normalized by normalize_line, and makes the text of  *)
(* the page by clean_text from the lines joined: the text is the lines     *)
(* with one blank between them, empty for a page that keeps no line.  A    *)
(* chapter filter can occur in the text across two lines, and in no line.  *)
(***************************************************************************)
\* lines "Agents learn", "Plans change"
PageOne ==
    [page |-> 1,
     text |-> <<65, 103, 101, 110, 116, 115, 32, 108, 101, 97, 114, 110, 32, 80, 108,
                97, 110, 115, 32, 99, 104, 97, 110, 103, 101>>,
     lines |-> <<<<65, 103, 101, 110, 116, 115, 32, 108, 101, 97, 114, 110>>,
               <<80, 108, 97, 110, 115, 32, 99, 104, 97, 110, 103, 101>>>>]
\* lines "Plans change", "Goals guide"
PageTwo ==
    [page |-> 2,
     text |-> <<80, 108, 97, 110, 115, 32, 99, 104, 97, 110, 103, 101, 32, 71, 111, 97,
                108, 115, 32, 103, 117, 105, 100, 101>>,
     lines |-> <<<<80, 108, 97, 110, 115, 32, 99, 104, 97, 110, 103, 101>>,
               <<71, 111, 97, 108, 115, 32, 103, 117, 105, 100, 101>>>>]
\* line "Search trees"
PageThree ==
    [page |-> 3,
     text |-> <<83, 101, 97, 114, 99, 104, 32, 116, 114, 101, 101, 115>>,
     lines |-> <<<<83, 101, 97, 114, 99, 104, 32, 116, 114, 101, 101, 115>>>>]
\* a page of which no line is kept
PageBlank == [page |-> 2, text |-> <<>>, lines |-> <<>>]

IngestedDocuments ==
    { <<>>, <<PageOne>>, <<PageOne, PageBlank>>, <<PageOne, PageTwo>>,
      <<PageOne, PageTwo, PageThree>> }

\* chapter filters: none, "Plans change", "Agents", "Goals", "learn Plans",
\* "trees", "zz"
FilterSettings ==
    [pages_filter : { {}, {1}, {3}, {1, 3}, {2, 3}, {5} },
     chapter_filter : { <<>>, <<80, 108, 97, 110, 115, 32, 99, 104, 97, 110, 103, 101>>,
                        <<65, 103, 101, 110, 116, 115>>, <<71, 111, 97, 108, 115>>,
                        <<108, 101, 97, 114, 110, 32, 80, 108, 97, 110, 115>>,
                        <<116, 114, 101, 101, 115>>, <<122, 122>> },
     max_pages : { <<>>, <<0>>, <<1>>, <<2>>, <<5>>, <<-1>> }]

InitFilter ==
    /\ \E document \in IngestedDocuments :
          startup = [pages |-> Len(document), document |-> document, health |-> FALSE,
                     events |-> <<>>, filtered |-> <<>>]
    /\ settings \in FilterSettings
    /\ pc = "ingest_pdf"
    /\ cache = NoCache
    /\ chunks = <<>>
    /\ embeddings = <<>>
    /\ search = NoSearch
    /\ select = NoSelect
    /\ reduce = NoReduce
    /\ map = NoMap
    /\ extract = NoExtract
    /\ concepts = <<>>
    /\ idx = 0
    /\ questions = <<>>
    /\ verified_questions = <<>>
    /\ attempts = 0
    /\ next_id = 0
    /\ gen = NoGenerate
    /\ ver = NoVerify

\* pages = ingest_pdf(...); if not pages: raise ValueError;
\* pages = _filter_pages(pages, settings)
FilterPages ==
    /\ pc = "ingest_pdf"
    /\ IF startup.document = <<>>
       THEN /\ pc' = "raised"
            /\ UNCHANGED startup
       ELSE /\ startup' = [startup EXCEPT !.filtered = filter_pages(startup.document, settings)]
            /\ pc' = "pages_filtered"
    /\ UNCHANGED <<cache, chunks, embeddings, search, map, extract, select, reduce, settings,
                   concepts, idx, questions, verified_questions, attempts, next_id, gen, ver>>

NextFilter ==
    \/ FilterPages

SpecFilter == InitFilter /\ [][NextFilter]_vars

\* the ingested pages and the pages kept, as sets
Ingested == { startup.document[k] : k \in 1..Len(startup.document) }
Kept == { startup.filtered[k] : k \in 1..Len(startup.filtered) }

\* the ingested pages the page filter names
PagesNamed == { page \in Ingested : page.page \in settings.pages_filter }

\* the selection after the page filter: the named pages, or every page when
\* no filter is set or it names none
PageSelection == IF PagesNamed = {} THEN Ingested ELSE PagesNamed

\* the pages of that selection in which the chapter filter occurs
ChapterNamed ==
    { page \in PageSelection :
         /\ settings.chapter_filter # <<>>
         /\ \/ HasSub(page.text, settings.chapter_filter)
            \/ \E k \in 1..Len(page.lines) : HasSub(page.lines[k], settings.chapter_filter) }

\* the selection after the chapter filter
ChapterSelection == IF ChapterNamed = {} THEN PageSelection ELSE ChapterNamed

\* C40: the pages _filter_pages returns are ingested pages in their ingested
\* order without repetition; they are a prefix of the selection the page
\* filter (every page when it matches none) and then the chapter filter (the
\* previous selection when it matches none) leave, the whole selection when
\* max_pages is unset or not below its size; and for a non-empty document
\* with max_pages unset or at least 1 some page is returned.
FilteredPages ==
    pc = "pages_filtered" =>
       /\ \A i \in 1..Len(startup.filtered) :
             /\ startup.filtered[i] \in Ingested
             /\ \A j \in 1..Len(startup.filtered) :
                   i < j => startup.filtered[i].page < startup.filtered[j].page
       /\ Kept \subseteq ChapterSelection
       /\ \A page \in Kept : \A earlier \in ChapterSelection :
             earlier.page < page.page => earlier \in Kept
       /\ (settings.max_pages = <<>> \/ settings.max_pages[1] >= Cardinality(ChapterSelection))
             => Kept = ChapterSelection
       /\ (settings.max_pages = <<>> \/ settings.max_pages[1] >= 1) => startup.filtered # <<>>

\* the page filter names no page of a three-page document, the chapter filter
\* occurs on two of them and max_pages keeps the first
FallbackThenPrefix ==
    /\ pc = "pages_filtered"
    /\ Len(startup.document) = 3
    /\ settings.pages_filter = {5}
    /\ settings.chapter_filter = <<80, 108, 97, 110, 115, 32, 99, 104, 97, 110, 103, 101>>
    /\ settings.max_pages = <<1>>
    /\ startup.filtered = <<PageOne>>
====
